---- MODULE Spec2Model ----
(***************************************************************************)
(* Pixel-Grid-Creator: the cell-lighting engine of the two rendering       *)
(* backends, PixelGridCanvas.tsx (immediate-mode canvas, "canvas") and     *)
(* MobileGridFallback.tsx (one animated view per cell, "percell").         *)
(*                                                                         *)
(* Units.  Pixel coordinates are integers (px).  Intensities, particle     *)
(* life/opacity and the values of Math.random(), Math.sin(), Math.cos()    *)
(* are fixed-point numbers in thousandths (1000 = 1.0).  Time is counted   *)
(* in steps of 100 ms.                                                     *)
(***************************************************************************)
EXTENDS Integers, Sequences, FiniteSets, TLC

VARIABLES
    backend,           \* "canvas" | "percell": useMobileFallback, fixed at load
    lightingMode,      \* prop lightingMode
    lightingShape,     \* prop lightingShape
    autoWave,          \* prop autoWave
    pattern,           \* prop pattern
    cellSize,          \* prop cellSize
    enableParticles,   \* prop enableParticles
    enableSound,       \* prop enableSound
    enableHaptics,     \* prop enableHaptics
    isDrawMode,        \* grid.tsx state isDrawMode, passed as a prop
    touchX, touchY,    \* shared values touchX / touchY
    isTouching,        \* isTouching (canvas) / isTouchActive (percell)
    gesture,           \* "idle" | "down": the gesture handler's own state
    timers,            \* pending setTimeout callbacks: remaining time, FIFO
    frameRateLimiter,  \* frameRateLimiterRef.current, kept modulo 2
    lastSample,        \* history: the most recently delivered pointer sample
    lastEvent,         \* history: the handler that ran last
    sinceEnd,          \* history: time since the latest end(), -1 after begin
    hookCalls,         \* history: the effects produced by the handler that ran last
    particles,         \* React state particles (oldest first)
    spawnsLeft,        \* remaining createParticles calls of the run
    ticksLeft,         \* remaining particle ticks of the run
    drawnCells,        \* grid.tsx state drawnCells, passed as a prop
    gridCoordinates,   \* percell React state gridCoordinates
    cellDrawCalls,     \* history: the onCellDraw calls of the handler that ran last
    cellCol, cellRow,  \* the cell drawn last (-1: none yet)
    cellX, cellY,      \* history: the position it was evaluated at, px
    shapeIntensity,    \* its intensity after the lighting-shape step
    sourceOffset,      \* what the wave sources added to its vertical position, px
    plainIntensity,    \* history: its intensity had the wave sources added nothing
    cellIntensity,     \* its intensity as used for colour and size
    multipleWaves,     \* prop multipleWaves
    waveSources,       \* waveSourcesRef.current (canvas) / state waveSources (percell)
    createdOver,       \* history: size of the set the latest batch was created over
    frameState,        \* "idle" | "drawing" | "done" | "aborted": the cell loops of drawGrid
    frameColors,       \* the values drawCell returned in this frame, in order
    frameFailed,       \* history: for each of them, whether the cell raised an error
    colorCall,         \* the latest call of a colour function: its name and arguments
    colorValue,        \* the colour it returned
    colorIndex,        \* the palette index it chose, -1 when it chose none
    trailPositions,    \* canvas React state trailPositions: the ages of its entries, oldest first
    animationSpeed,    \* prop animationSpeed, in tenths
    rafQueue,          \* the requestAnimationFrame callbacks of the loops, in call order
    pending,           \* the callbacks of the current frame that have not run yet
    sinceRender,       \* frame timestamp - lastRenderTimeRef.current, ms
    sinceTimeRun,      \* frame timestamp - lastTime of the time loop, ms (-1: lastTime is 0)
    timeAdvance,       \* history: what the current frame added to waveTime / timeValue
    frameDelta,        \* history: frame timestamp - timestamp of the frame before, ms
    frames,            \* history: frames so far, counted up to 2
    loopRuns,          \* history: the loops whose body ran in the current frame
    containerWidth,    \* percell containerWidth: the window's width, px
    containerHeight,   \* percell containerHeight: the height of the grid's container, px
    skipFactor,        \* gridDimensions.skipFactor of the latest grid build
    gridCells,         \* the cells of the latest grid build: <<row, col>> of each view
    gridBuilt,         \* whether the grid has been built
    theme,             \* store field theme
    customThemes,      \* store field customThemes: own keys and their colours
    activeCustomTheme, \* store field activeCustomTheme: {} for null, {name} otherwise
    storedConfig,      \* AsyncStorage item pixel_grid_config: <<>> when absent
    storedThemes,      \* AsyncStorage item pixel_grid_custom_themes: <<>> when absent
    tasks              \* the storage calls in flight, in the order they were issued

configVars == <<backend, lightingMode, lightingShape, autoWave, pattern,
                cellSize, enableParticles, enableSound, enableHaptics>>
pointerVars == <<touchX, touchY, isTouching, gesture, timers,
                 frameRateLimiter, lastSample, lastEvent, sinceEnd, hookCalls,
                 trailPositions>>
loopVars == <<animationSpeed, rafQueue, pending, sinceRender, sinceTimeRun,
              timeAdvance, frameDelta, frames, loopRuns>>
particleVars == <<particles, spawnsLeft, ticksLeft>>
drawnVars == <<isDrawMode, drawnCells, gridCoordinates, cellDrawCalls>>

intensityVars ==
    <<cellCol, cellRow, cellX, cellY, shapeIntensity, sourceOffset, plainIntensity,
      cellIntensity>>
waveVars == <<multipleWaves, waveSources, createdOver>>
frameVars == <<frameState, frameColors, frameFailed>>
colorVars == <<colorCall, colorValue, colorIndex>>
sceneVars == <<intensityVars, waveVars, frameVars, colorVars>>

gridVars == <<containerWidth, containerHeight, skipFactor, gridCells, gridBuilt>>
storeVars == <<theme, customThemes, activeCustomTheme, storedConfig, storedThemes,
               tasks>>
sideVars == <<gridVars, storeVars>>

vars == <<configVars, loopVars, pointerVars, particleVars, drawnVars, sceneVars,
          sideVars>>

(***************************************************************************)
(* Bounds of the model.                                                    *)
(***************************************************************************)
MaxPending == 2     \* settle timers pending at once
MaxTasks == 2       \* saveConfiguration / loadConfiguration calls in flight at once
MaxOverflow == 1    \* createParticles calls beyond those that fill the cap
MaxTicks == 2       \* particle ticks in one run
MaxDrawn == 3       \* length of the drawn-cell list
MaxHookSpawns == 1  \* createParticles calls in a run of the hooks
MaxSettleSpawns == 1  \* createParticles calls in a run of touches and settle timers
MaxDecaySpawns == 2  \* createParticles calls in a run of particles ageing out

(***************************************************************************)
(* Enumerations of the props and the inputs drawn for the handlers.        *)
(***************************************************************************)
Backends == {"canvas", "percell"}
LightingModes == {"gradient", "simple", "pulse", "solid", "highlight", "uniform"}
LightingShapes == {"circular", "linear", "radial", "random"}
Patterns == {"dots", "lines", "waves", "grid", "particles"}

\* Pointer samples (e.x, e.y) the gesture handler delivers.
Samples == {<<10, 10>>, <<20, 30>>}
\* Values of Math.random(), in thousandths.
RandomDraws == {0, 500}

canvasWidth == 200
canvasHeight == 200

Min(a, b) == IF a < b THEN a ELSE b
Max(a, b) == IF a > b THEN a ELSE b

(***************************************************************************)
(* Pointer: gesture handlers and the settle timer.                         *)
(***************************************************************************)
OffCanvas == 0 - 100

StandardDelay == 5
LongDelay == 8

\* The delay handed to setTimeout by onEnd.
SettleDelay(b, mode) ==
    IF b = "canvas"
    THEN StandardDelay
    ELSE IF mode = "simple" \/ mode = "highlight" THEN LongDelay ELSE StandardDelay

(***************************************************************************)
(* Particles.                                                              *)
(***************************************************************************)
maxParticles == 50
MobileMaxParticles == 30
FullLife == 1000

ParticleCap(b) == IF b = "canvas" THEN maxParticles ELSE MobileMaxParticles

\* Array.prototype.slice(-n): the last n elements.
SliceLast(s, n) ==
    IF Len(s) <= n THEN s ELSE SubSeq(s, Len(s) - n + 1, Len(s))

\* particleCount of createParticles; intensity is its third argument.
ParticleCount(b, intensity) ==
    IF b = "canvas" THEN 5 ELSE (3000 + intensity * 2) \div 1000

\* One new particle; born numbers the createParticles call that made it.
\* canvas: life 1.0, decay 0.05 + random * 0.05.
\* percell: opacity 0.7 + random * 0.3, reduced by 0.05 per tick.
NewParticle(b, rnd, born) ==
    IF b = "canvas"
    THEN [life |-> FullLife, decay |-> 50 + (rnd * 50) \div 1000, born |-> born]
    ELSE [life |-> 700 + (rnd * 300) \div 1000, decay |-> 50, born |-> born]

NewParticles(b, intensity, rnd, born) ==
    [i \in 1..ParticleCount(b, intensity) |-> NewParticle(b, rnd, born)]

\* Mutant: slice(0, max) keeps the oldest particles.
CombinedParticlesKeepOldest(b, prev, new) ==
    SubSeq(prev \o new, 1, Min(Len(prev \o new), ParticleCap(b)))

\* The updater createParticles hands to setParticles.
CombinedParticles(b, prev, new) == SliceLast(prev \o new, ParticleCap(b))

\* Mutant: the map without the filter.
AgedParticlesUnfiltered(prev) ==
    [i \in 1..Len(prev) |-> [prev[i] EXCEPT !.life = prev[i].life - prev[i].decay]]

\* The map/filter of drawParticles and of the percell particle interval.
AgedParticles(prev) ==
    SelectSeq([i \in 1..Len(prev) |->
                  [prev[i] EXCEPT !.life = prev[i].life - prev[i].decay]],
              LAMBDA p : p.life > 0)

\* The createParticles calls of one run: enough to fill the cap, and
\* MaxOverflow more.
SpawnBudget(b) == ParticleCap(b) \div 5 + MaxOverflow

\* createParticles(x, y, intensity) as called by a handler: the next
\* value of particles and of the call budget.
CreateParticlesEffect(intensity, rnd) ==
    IF enableParticles
    THEN /\ spawnsLeft > 0
         /\ particles' = CombinedParticles(backend, particles,
                NewParticles(backend, intensity, rnd, SpawnBudget(backend) - spawnsLeft))
         /\ spawnsLeft' = spawnsLeft - 1
         /\ UNCHANGED ticksLeft
    ELSE UNCHANGED particleVars

(***************************************************************************)
(* Drawn cells.                                                            *)
(***************************************************************************)
DrawnCellLimit == 100

\* Conversion of a drawn-cell entry to a grid coordinate.
\* canvas: floor(x / (cellSize + 2)); percell: floor(x / (cellSize*2*1.5)).
ToGridCoord(b, size, cell) ==
    IF b = "canvas"
    THEN <<cell[1] \div (size + 2), cell[2] \div (size + 2)>>
    ELSE <<cell[1] \div (size * 3), cell[2] \div (size * 3)>>

ConvertCells(b, size, cells) ==
    [i \in 1..Len(cells) |-> ToGridCoord(b, size, cells[i])]

\* The percell effect on [drawnCells, cellSize]: it converts the list only
\* when the list is not empty.
ConversionEffect(b, size, cells, coords) ==
    IF Len(cells) > 0 THEN ConvertCells(b, size, cells) ELSE coords

\* grid.tsx handleCellDraw: append the sample to the list.
HandleCellDraw(b, cells, s) ==
    IF b = "percell" /\ Len(cells) > DrawnCellLimit
    THEN Append(SliceLast(cells, DrawnCellLimit), s)
    ELSE Append(cells, s)

\* Mutant: the handler calls onCellDraw whatever the mode.
CellDrawCallsAlways(drawMode, s) == <<s>>

\* The onCellDraw calls a handler makes for sample s:
\* if (isDrawMode && onCellDraw) onCellDraw(e.x, e.y).
CellDrawCalls(drawMode, s) == IF drawMode THEN <<s>> ELSE <<>>

\* onCellDraw(e.x, e.y) as called by a gesture handler, followed by the
\* re-render with the new list and the conversion effect.
CellDrawEffect(s) ==
    IF Len(CellDrawCalls(isDrawMode, s)) > 0
    THEN /\ Len(drawnCells) < MaxDrawn
         /\ cellDrawCalls' = CellDrawCalls(isDrawMode, s)
         /\ drawnCells' = HandleCellDraw(backend, drawnCells, s)
         /\ gridCoordinates' =
                IF backend = "percell"
                THEN ConversionEffect(backend, cellSize,
                         HandleCellDraw(backend, drawnCells, s), gridCoordinates)
                ELSE gridCoordinates
         /\ UNCHANGED isDrawMode
    ELSE /\ cellDrawCalls' = <<>>
         /\ UNCHANGED <<isDrawMode, drawnCells, gridCoordinates>>

(***************************************************************************)
(* Interaction hooks: the effects a handler produces.                      *)
(***************************************************************************)
\* playSound: returns at once when enableSound is off.
SoundHook(enabled) == IF enabled THEN {"sound"} ELSE {}

\* triggerHaptics: needs enableHaptics and a platform other than the web;
\* the canvas backend runs on the web only.
HapticsHook(b, enabled) == IF b = "percell" /\ enabled THEN {"haptics"} ELSE {}

\* Mutant: createParticles without its enableParticles test.
ParticleHookUnguarded(enabled) == {"particles"}

\* createParticles: returns at once when enableParticles is off.
ParticleHook(enabled) == IF enabled THEN {"particles"} ELSE {}

\* The effects of onBegin.
BeginHooks ==
    SoundHook(enableSound) \cup HapticsHook(backend, enableHaptics)
        \cup ParticleHook(enableParticles)

\* The effects of an onUpdate that stores its sample.  spawn and buzz are
\* the outcomes of its Math.random() tests.
UpdateHooks(spawn, buzz) ==
    IF ~spawn
    THEN {}
    ELSE ParticleHook(enableParticles) \cup
         (IF buzz THEN HapticsHook(backend, enableHaptics) ELSE {})

\* drawCell: intensity > 0.7
IsHot(i) == i > 700

\* The effects at the end of drawCell for a cell that is hot or not.
RenderHooks(hot, touching, auto) ==
    IF hot /\ (touching \/ auto)
    THEN SoundHook(enableSound) \cup HapticsHook(backend, enableHaptics)
             \cup ParticleHook(enableParticles)
    ELSE {}

(***************************************************************************)
(* Gesture handlers.                                                       *)
(***************************************************************************)
TrailLimit == 10

\* The updater onUpdate hands to setTrailPositions: a new entry of age 0 at
\* the end, the oldest entry dropped beyond 10.  The x and y of an entry are
\* never read; an entry is kept as its age.
AppendedTrail(prev) ==
    IF Len(prev) + 1 > TrailLimit THEN Tail(Append(prev, 0)) ELSE Append(prev, 0)

\* The trail after onBegin and after an onUpdate that stores its sample;
\* only the canvas backend keeps a trail.
TrailAfterBegin(b, prev) == IF b = "canvas" THEN <<>> ELSE prev
TrailAfterUpdate(b, prev) == IF b = "canvas" THEN AppendedTrail(prev) ELSE prev

\* Gesture.Pan().onBegin / Gesture.Tap().onBegin
GestureBegin(s) ==
    /\ gesture = "idle"
    /\ gesture' = "down"
    /\ touchX' = s[1]
    /\ touchY' = s[2]
    /\ isTouching' = TRUE
    /\ lastSample' = s
    /\ lastEvent' = "begin"
    /\ sinceEnd' = 0 - 1
    /\ hookCalls' = BeginHooks
    /\ trailPositions' = TrailAfterBegin(backend, trailPositions)
    /\ CellDrawEffect(s)
    /\ \E rnd \in RandomDraws : CreateParticlesEffect(1000, rnd)
    /\ UNCHANGED <<configVars, sideVars, loopVars, sceneVars, timers, frameRateLimiter>>

\* Mutant: the throttle lets the other half of the samples through.
UpdateStoresOdd(b, limiter) == b = "canvas" \/ limiter % 2 = 1

\* Whether onUpdate stores the sample: always on the canvas; on the percell
\* backend only when the incremented frameRateLimiter is even.
UpdateStores(b, limiter) == b = "canvas" \/ limiter % 2 = 0

\* Gesture.Pan().onUpdate.  spawn is the outcome of the Math.random() test
\* that decides whether particles are created for this sample.
GestureUpdate(s, spawn) ==
    /\ gesture = "down"
    /\ lastSample' = s
    /\ lastEvent' = "update"
    /\ frameRateLimiter' =
           IF backend = "percell" THEN (frameRateLimiter + 1) % 2
           ELSE frameRateLimiter
    /\ IF UpdateStores(backend, frameRateLimiter')
       THEN /\ touchX' = s[1]
            /\ touchY' = s[2]
            /\ isTouching' = IF backend = "percell" THEN TRUE ELSE isTouching
            /\ trailPositions' = TrailAfterUpdate(backend, trailPositions)
            /\ CellDrawEffect(s)
            /\ \E buzz \in BOOLEAN : hookCalls' = UpdateHooks(spawn, buzz)
            /\ IF spawn
               THEN \E rnd \in RandomDraws : CreateParticlesEffect(500, rnd)
               ELSE UNCHANGED particleVars
       ELSE /\ cellDrawCalls' = <<>>
            /\ hookCalls' = {}
            /\ UNCHANGED <<touchX, touchY, isTouching, trailPositions, particleVars,
                           isDrawMode, drawnCells, gridCoordinates>>
    /\ UNCHANGED <<configVars, sideVars, loopVars, sceneVars, gesture, timers, sinceEnd>>

\* Gesture.Pan().onEnd / Gesture.Tap().onEnd: schedule the settle timer.
GestureEnd ==
    /\ gesture = "down"
    /\ Len(timers) < MaxPending
    /\ gesture' = "idle"
    /\ isTouching' = IF backend = "canvas" THEN FALSE ELSE isTouching
    /\ timers' = Append(timers, SettleDelay(backend, lightingMode))
    /\ lastEvent' = "end"
    /\ hookCalls' = {}
    /\ sinceEnd' = 0
    /\ UNCHANGED <<configVars, sideVars, loopVars, sceneVars, touchX, touchY, frameRateLimiter, lastSample,
                   trailPositions,
                   particleVars, drawnVars>>

\* Mutant: the timeout callback never resets the pointer.
TimerResetsNever(b, touching) == FALSE

\* Whether the timeout callback resets the pointer: the canvas callback
\* tests the flag, the percell callback resets unconditionally.
TimerResets(b, touching) == IF b = "canvas" THEN ~touching ELSE TRUE

\* The setTimeout callback of onEnd, run when its delay has elapsed.
TimerFire ==
    /\ Len(timers) > 0
    /\ Head(timers) = 0
    /\ timers' = Tail(timers)
    /\ lastEvent' = "timer"
    /\ hookCalls' = {}
    /\ IF TimerResets(backend, isTouching)
       THEN /\ touchX' = OffCanvas
            /\ touchY' = OffCanvas
            /\ isTouching' = FALSE
            /\ trailPositions' = <<>>
       ELSE UNCHANGED <<touchX, touchY, isTouching, trailPositions>>
    /\ UNCHANGED <<configVars, sideVars, loopVars, sceneVars, gesture, frameRateLimiter, lastSample, sinceEnd,
                   particleVars, drawnVars>>

\* 100 ms pass.  A timer whose delay has elapsed runs before more time passes.
ClockTick ==
    /\ \A i \in 1..Len(timers) : timers[i] > 0
    /\ timers' = [i \in 1..Len(timers) |-> timers[i] - 1]
    /\ sinceEnd' = IF sinceEnd < 0 THEN sinceEnd ELSE Min(sinceEnd + 1, LongDelay + 1)
    /\ lastEvent' = "clock"
    /\ hookCalls' = {}
    /\ UNCHANGED <<configVars, sideVars, loopVars, sceneVars, touchX, touchY, isTouching, gesture,
                   trailPositions,
                   frameRateLimiter, lastSample, particleVars, drawnVars>>

\* The (cos, sin) values, in thousandths, of the angle the frame draws.
TrigDraws == {<<1000, 0>>, <<0, 1000>>}

\* drawGrid: the pointer position synthesized for autoWave, by shape.
AutoWavePoint(shape, trig) ==
    CASE shape = "circular" ->
            <<canvasWidth \div 2 + (trig[1] * ((Min(canvasWidth, canvasHeight) * 3) \div 10)) \div 1000,
              canvasHeight \div 2 + (trig[2] * ((Min(canvasWidth, canvasHeight) * 3) \div 10)) \div 1000>>
      [] shape = "linear" ->
            <<((trig[2] + 1000) * canvasWidth) \div 2000, canvasHeight \div 2>>
      [] shape = "radial" ->
            <<canvasWidth \div 2, canvasHeight \div 2>>
      [] OTHER ->
            <<canvasWidth \div 2 + (trig[2] * canvasWidth * 4) \div 10000,
              canvasHeight \div 2 + (trig[1] * canvasHeight * 4) \div 10000>>

\* Mutant: autoWave overwrites the pointer under a touch as well.
FrameMovesPointerAlways(auto, touching) == auto

\* drawGrid overwrites the pointer only for autoWave with no touch.
FrameMovesPointer(auto, touching) == auto /\ ~touching

\* The particle part of one drawGrid frame: createParticles for a cell whose
\* intensity is above 0.7 (hot), then drawParticles, whose setParticles of
\* the aged render-time list replaces the queued updates.
FrameParticlesEffect(hot, rnd) ==
    IF ~enableParticles
    THEN UNCHANGED particleVars
    ELSE IF Len(particles) > 0
         THEN /\ ticksLeft > 0
              /\ particles' = AgedParticles(particles)
              /\ ticksLeft' = ticksLeft - 1
              /\ UNCHANGED spawnsLeft
         ELSE IF hot /\ (isTouching \/ autoWave)
              THEN CreateParticlesEffect(1000, rnd)
              ELSE UNCHANGED particleVars

\* One frame of the canvas backend: Canvas.onDraw = drawGrid.
\* The intensities of the cells it draws are locals of drawCell; DrawCell
\* computes them for one cell at a time.
DrawGrid ==
    /\ backend = "canvas"
    /\ lastEvent' = "frame"
    /\ IF FrameMovesPointer(autoWave, isTouching)
       THEN \E trig \in TrigDraws :
                /\ touchX' = AutoWavePoint(lightingShape, trig)[1]
                /\ touchY' = AutoWavePoint(lightingShape, trig)[2]
       ELSE UNCHANGED <<touchX, touchY>>
    /\ \E hot \in BOOLEAN, rnd \in RandomDraws :
           /\ FrameParticlesEffect(hot, rnd)
           /\ hookCalls' = RenderHooks(hot, isTouching, autoWave)
    /\ UNCHANGED <<configVars, sideVars, loopVars, sceneVars, isTouching, gesture, timers, frameRateLimiter,
                   trailPositions,
                   lastSample, sinceEnd, drawnVars>>

(***************************************************************************)
(* Particle operations on their own.                                       *)
(***************************************************************************)
\* createParticles(x, y[, intensity]), whoever calls it.
CreateParticles(intensity, rnd) ==
    /\ enableParticles
    /\ CreateParticlesEffect(intensity, rnd)
    /\ UNCHANGED <<configVars, sideVars, loopVars, sceneVars, pointerVars, drawnVars>>

\* The tick of the particle list: drawParticles on the canvas, the 33 ms
\* interval on the percell backend.  Neither runs on an empty list.
ParticleTick ==
    /\ Len(particles) > 0
    /\ backend = "canvas" => enableParticles
    /\ ticksLeft > 0
    /\ particles' = AgedParticles(particles)
    /\ ticksLeft' = ticksLeft - 1
    /\ UNCHANGED <<spawnsLeft, configVars, sideVars, loopVars, sceneVars, pointerVars, drawnVars>>

(***************************************************************************)
(* Draw mode.                                                              *)
(***************************************************************************)
\* grid.tsx toggleDrawMode, the re-render and the conversion effect.
ToggleDrawMode ==
    /\ isDrawMode' = ~isDrawMode
    /\ drawnCells' = IF isDrawMode THEN <<>> ELSE drawnCells
    /\ gridCoordinates' =
           IF backend = "percell"
           THEN ConversionEffect(backend, cellSize, drawnCells', gridCoordinates)
           ELSE gridCoordinates
    /\ UNCHANGED <<cellDrawCalls, configVars, sideVars, loopVars, sceneVars, pointerVars, particleVars>>

\* Whether cell (col, row) is shown as drawn.  percell: the isDrawnCell prop
\* computed by gridCells; canvas: the overlay of drawGrid.
IsDrawnCell(col, row) ==
    IF backend = "percell"
    THEN \E i \in 1..Len(gridCoordinates) : gridCoordinates[i] = <<col, row>>
    ELSE /\ isDrawMode
         /\ \E i \in 1..Len(drawnCells) :
                ToGridCoord(backend, cellSize, drawnCells[i]) = <<col, row>>

(***************************************************************************)
(* Cell intensity.                                                         *)
(***************************************************************************)
interactionRadius == 100

\* Values of Math.sin() drawn for the time-dependent terms, in thousandths.
SineDraws == {0 - 1000, 600}

RECURSIVE SqrtSearch(_, _, _)
SqrtSearch(n, lo, hi) ==
    IF lo >= hi
    THEN lo
    ELSE LET mid == (lo + hi + 1) \div 2
         IN  IF mid * mid <= n
             THEN SqrtSearch(n, mid, hi)
             ELSE SqrtSearch(n, lo, mid - 1)

\* Math.sqrt(dx * dx + dy * dy), rounded down to a whole pixel.
Distance(x1, y1, x2, y2) ==
    SqrtSearch((x1 - x2) * (x1 - x2) + (y1 - y2) * (y1 - y2), 0, 1000)

CeilDiv(a, b) == (a + b - 1) \div b

\* Math.max(0, Math.min(1, v))
Clamp01(v) == Max(0, Min(1000, v))

\* drawGrid: the divisor (in tenths) of the column or row count, by pattern.
CanvasCountDivisor(p, axis) ==
    CASE p = "grid" -> 10
      [] p = "lines" -> IF axis = "x" THEN 10 ELSE 20
      [] p = "waves" -> 15
      [] p = "particles" -> 18
      [] OTHER -> 12

\* drawGrid: cols / rows = Math.ceil(extent / totalSize / k) + 1.
CanvasCount(p, size, extent, axis) ==
    CeilDiv(extent * 10, (size + 2) * CanvasCountDivisor(p, axis)) + 1

\* drawGrid: the x of a cell, by pattern.
CanvasCellX(p, size, col, row) ==
    CASE p = "lines" -> (col * (size + 2) * 12) \div 10
      [] p = "waves" -> (col * (size + 2) * 18) \div 10
      [] p = "grid" -> (col * (size + 2) * 12) \div 10
      [] p = "particles" ->
            col * (size + 2) * 2 + (IF row % 2 = 0 THEN size + 2 ELSE 0)
      [] OTHER -> (col * (size + 2) * 15) \div 10

\* drawGrid: wave.amplitude * Math.sin(...) * Math.exp(...) of one source, in
\* px, for an amplitude below 20.
SourceEffectDraws == {0 - 12, 7}

\* Mutant: the active flag of a source is not looked at.
SourceEffectAlways(wave, effect) == effect

\* drawGrid: what one source adds to waveOffset.
SourceEffect(wave, effect) == IF ~wave.active THEN 0 ELSE effect

\* drawGrid: waveOffset after forEach over the first n sources.
RECURSIVE SourcesOffset(_, _, _)
SourcesOffset(sources, effects, n) ==
    IF n = 0 THEN 0
    ELSE SourcesOffset(sources, effects, n - 1) + SourceEffect(sources[n], effects[n])

\* drawGrid: whether waveOffset is computed from the wave sources.
UsesSources(multi, sources) == multi /\ Len(sources) > 0

\* drawGrid: waveOffset of a cell of the waves pattern.  wave is the sine
\* that scales the offset (at most 11 px) of the original wave logic.
CanvasWaveOffset(multi, sources, effects, wave) ==
    IF UsesSources(multi, sources)
    THEN SourcesOffset(sources, effects, Len(sources))
    ELSE (wave * 11) \div 1000

\* drawGrid: the y of a cell, by pattern.
CanvasCellY(p, size, row, waveOffset) ==
    CASE p = "lines" -> (row * (size + 2) * 25) \div 10
      [] p = "waves" -> (row * (size + 2) * 18) \div 10 + waveOffset
      [] p = "grid" -> (row * (size + 2) * 12) \div 10
      [] p = "particles" -> row * (size + 2) * 2
      [] OTHER -> (row * (size + 2) * 15) \div 10

\* Math.max(0, 1 - distance / radius)
TouchFalloff(d, radius) == Max(0, 1000 - (d * 1000) \div radius)

\* 1 - radialDist / maxRadius, from the centre of the canvas.
RadialIntensity(x, y) ==
    1000 - (Distance(x, y, canvasWidth \div 2, canvasHeight \div 2) * 1000)
               \div Distance(0, 0, canvasWidth \div 2, canvasHeight \div 2)

\* drawCell: the switch on lightingShape.  wave is the sine of the autoWave
\* term.
CanvasShapeIntensity(shape, x, y, col, row, tx, ty, touching, auto, wave) ==
    LET isInteractive == touching \/ auto
        waveEffect == IF auto THEN (wave * 300) \div 1000 ELSE 0
        touchDistance == Distance(x, y, tx, ty)
        seed == (col * 100 + row) % 1000
    IN  CASE shape = "circular" ->
                IF isInteractive
                THEN IF auto
                     THEN Max(0, TouchFalloff(touchDistance, interactionRadius) + waveEffect)
                     ELSE TouchFalloff(touchDistance, interactionRadius)
                ELSE 0
          [] shape = "linear" ->
                IF isInteractive
                THEN Clamp01((((x * 1000) \div canvasWidth) * 300) \div 1000
                             + (TouchFalloff(touchDistance, (interactionRadius * 3) \div 2) * 500) \div 1000
                             + waveEffect)
                ELSE (x * 1000) \div canvasWidth
          [] shape = "radial" ->
                IF isInteractive
                THEN Clamp01((RadialIntensity(x, y) * 400) \div 1000
                             + (TouchFalloff(touchDistance, interactionRadius) * 400) \div 1000
                             + waveEffect)
                ELSE RadialIntensity(x, y)
          [] OTHER ->
                IF isInteractive
                THEN Clamp01((seed * 400) \div 1000
                             + (TouchFalloff(touchDistance, interactionRadius) * 400) \div 1000
                             + waveEffect)
                ELSE seed

\* drawCell: the lighting-mode adjustment.  pulse is sin(waveTime * 5).
CanvasModeIntensity(mode, i, pulse) ==
    IF mode = "uniform"
    THEN 1000
    ELSE IF mode = "pulse"
         THEN (i * (500 + (500 * pulse) \div 1000)) \div 1000
         ELSE i

\* gridDimensions: the divisor (in tenths) of the column or row count.
PercellCountDivisor(p, axis) ==
    CASE p = "grid" -> 12
      [] p = "lines" -> IF axis = "x" THEN 12 ELSE 25
      [] p = "particles" -> 18
      [] OTHER -> 15

\* gridDimensions: cols / rows = Math.floor(extent / (cellSize * 2 * k)).
PercellCount(p, size, extent, axis) ==
    (extent * 10) \div (size * 2 * PercellCountDivisor(p, axis))

maxCells == 500

\* Mutant: the step is the quotient rounded down.
SkipFactorRoundedDown(totalCells) ==
    IF totalCells > maxCells THEN totalCells \div maxCells ELSE 1

\* gridDimensions: skipFactor = totalCells > maxCells
\*                                  ? Math.ceil(totalCells / maxCells) : 1.
SkipFactorOf(totalCells) ==
    IF totalCells > maxCells THEN CeilDiv(totalCells, maxCells) ELSE 1

\* gridDimensions: skipFactor in a container of canvasWidth x canvasHeight.
SkipFactor(p, size) ==
    SkipFactorOf(PercellCount(p, size, canvasWidth, "x")
                     * PercellCount(p, size, canvasHeight, "y"))

\* gridCells: the values a loop variable takes in
\* for (k = from; k < count; k += step): pass i has k = from + i * step, and
\* the passes go on while k < count.
LoopValues(from, count, step) ==
    {k \in {from + i * step : i \in 0..count} : k < count}

\* gridCells: one AnimatedCell per pass of the inner loop, keyed by row and col.
CellsBuilt(rows, cols, step) ==
    {<<row, col>> : row \in LoopValues(0, rows, step),
                    col \in LoopValues(0, cols, step)}

\* The container sizes a layout event may report, px.
WidthDraws == {0, 3, 200, 390, 1201, 1203}
HeightDraws == {0, 3, 200, 844, 2000}
\* The cell sizes the grid is built with.
CellSizeDraws == {1, 2, 5, 10}

\* gridDimensions and gridCells: the memoised grid is computed from pattern,
\* cellSize and the container size.
BuildGrid ==
    /\ backend = "percell"
    /\ ~gridBuilt
    /\ LET cols == PercellCount(pattern, cellSize, containerWidth, "x")
           rows == PercellCount(pattern, cellSize, containerHeight, "y")
           step == SkipFactorOf(cols * rows)
       IN  /\ skipFactor' = step
           /\ gridCells' = CellsBuilt(rows, cols, step)
    /\ gridBuilt' = TRUE
    /\ UNCHANGED <<containerWidth, containerHeight, storeVars>>
    /\ UNCHANGED <<configVars, loopVars, pointerVars, particleVars, drawnVars, sceneVars>>

\* gridCells: x = col * spacingX with spacingX = containerWidth / cols.
PercellCellPos(p, size, extent, axis, k) ==
    (k * extent) \div PercellCount(p, size, extent, axis)

\* Mutant: the boost falls off over the diameter.
PercellBoostOverDiameter(d, radius) == 1000 - (d * 1000) \div (2 * radius)

\* The boost near the pointer: 1 - distance / radius inside the radius.
PercellBoost(d, radius) == 1000 - (d * 1000) \div radius

\* animatedStyle: the chain on lightingShape.  seedSin is sin(seed) of the
\* random shape.
PercellShapeIntensity(shape, x, y, tx, ty, seedSin) ==
    LET distance == Distance(x, y, tx, ty)
        half == interactionRadius \div 2
    IN  CASE shape = "circular" ->
                IF distance < interactionRadius
                THEN PercellBoost(distance, interactionRadius)
                ELSE 0
          [] shape = "linear" ->
                IF distance < half
                THEN Max((x * 1000) \div canvasWidth,
                         500 + (PercellBoost(distance, half) * 500) \div 1000)
                ELSE (x * 1000) \div canvasWidth
          [] shape = "radial" ->
                IF distance < half
                THEN Max(1000 - Min(1000, 1000 - RadialIntensity(x, y)),
                         PercellBoost(distance, half))
                ELSE 1000 - Min(1000, 1000 - RadialIntensity(x, y))
          [] OTHER ->
                IF distance < interactionRadius
                THEN Max((seedSin + 1000) \div 2,
                         PercellBoost(distance, interactionRadius))
                ELSE (seedSin + 1000) \div 2

\* animatedStyle: on/off for simple, highlight, uniform and drawn cells.
PercellBinarize(mode, drawn, i) ==
    IF mode = "simple" \/ mode = "highlight" \/ mode = "uniform" \/ drawn
    THEN IF i > 0 THEN 1000 ELSE 0
    ELSE i

\* animatedStyle: uniform sets full brightness.
PercellUniform(mode, i) == IF mode = "uniform" THEN 1000 ELSE i

\* animatedStyle: the pulse factor, applied while intensity.value is 0
\* (fresh).
PercellPulse(mode, fresh, i, pulse) ==
    IF mode = "pulse" /\ fresh
    THEN (i * (500 + (500 * pulse) \div 1000)) \div 1000
    ELSE i

\* 0.5 + 0.5 * sin(...) * sin(...) of the waves pattern.
PercellWaveIntensity(a, b) == 500 + (500 * ((a * b) \div 1000)) \div 1000

\* 0.2 * 0.35 * (sin(...) + 1) * 0.5 of autoWave.
PercellAutoWaveIntensity(s) == (35 * (s + 1000)) \div 1000

\* Mutant: the wave term replaces the intensity.
PercellWaveBlendReplace(i, w) == w

\* touchIntensity = Math.max(touchIntensity, waveIntensity)
PercellWaveBlend(i, w) == Max(i, w)

\* animatedStyle: from the shape intensity to the target handed to
\* withTiming.  sn holds the sines drawn for this evaluation.
PercellModeIntensity(mode, p, auto, drawn, fresh, i, sn) ==
    LET lit == PercellPulse(mode, fresh,
                   PercellUniform(mode, PercellBinarize(mode, drawn, i)), sn.pulse)
        waved == IF p = "waves"
                 THEN PercellWaveBlend(lit, PercellWaveIntensity(sn.waveA, sn.waveB))
                 ELSE lit
    IN  IF auto
        THEN PercellWaveBlend(waved, PercellAutoWaveIntensity(sn.auto))
        ELSE waved

\* The effects of the wave sources one evaluation draws on the canvas.
EffectInputs(b) ==
    IF b = "canvas" /\ pattern = "waves" /\ UsesSources(multipleWaves, waveSources)
    THEN [1..Len(waveSources) -> SourceEffectDraws]
    ELSE {<<>>}

\* The sines one evaluation draws; a backend's unused ones are fixed.
SineInputs(b) ==
    IF b = "canvas"
    THEN [shape : SineDraws, pulse : SineDraws, waveA : SineDraws,
          waveB : {0}, auto : {0}, effects : EffectInputs(b)]
    ELSE [shape : SineDraws, pulse : SineDraws, waveA : SineDraws,
          waveB : SineDraws, auto : SineDraws, effects : EffectInputs(b)]

\* The columns / rows of the grid the backend draws.
GridCount(b, p, size, extent, axis) ==
    IF b = "canvas"
    THEN CanvasCount(p, size, extent, axis)
    ELSE PercellCount(p, size, extent, axis)

\* The intensity of the cell at (col, row) drawn at (x, y): the lighting
\* shape, then the lighting mode.
ShapedAt(x, y, col, row, sn) ==
    IF backend = "canvas"
    THEN CanvasShapeIntensity(lightingShape, x, y, col, row,
                              touchX, touchY, isTouching, autoWave, sn.shape)
    ELSE PercellShapeIntensity(lightingShape, x, y, touchX, touchY, sn.shape)

IntensityAt(x, y, col, row, fresh, sn) ==
    IF backend = "canvas"
    THEN CanvasModeIntensity(lightingMode, ShapedAt(x, y, col, row, sn), sn.pulse)
    ELSE PercellModeIntensity(lightingMode, pattern, autoWave,
                              IsDrawnCell(col, row), fresh,
                              ShapedAt(x, y, col, row, sn), sn)

\* Mutant: every source, active or not, moves the cells of either backend.
WaveSourcesOffsetAll(b, p, multi, sources, effects) ==
    IF p = "waves" /\ UsesSources(multi, sources) THEN 7 * Len(sources) ELSE 0

\* What the wave sources add to the vertical position of a cell: waveOffset
\* of the canvas when it is computed from them; the per-cell style never
\* reads its waveSources prop.
WaveSourcesOffset(b, p, multi, sources, effects) ==
    IF b = "canvas" /\ p = "waves" /\ UsesSources(multi, sources)
    THEN SourcesOffset(sources, effects, Len(sources))
    ELSE 0

\* drawCell (canvas) / AnimatedCell.animatedStyle (percell) for the cell at
\* (col, row).  fresh tells whether the cell's animated value is still 0.
DrawCell(col, row, fresh, sn) ==
    /\ col < GridCount(backend, pattern, cellSize, canvasWidth, "x")
    /\ row < GridCount(backend, pattern, cellSize, canvasHeight, "y")
    /\ backend = "percell" =>
           col % SkipFactor(pattern, cellSize) = 0 /\ row % SkipFactor(pattern, cellSize) = 0
    /\ cellCol' = col
    /\ cellRow' = row
    /\ LET x == IF backend = "canvas"
                THEN CanvasCellX(pattern, cellSize, col, row)
                ELSE PercellCellPos(pattern, cellSize, canvasWidth, "x", col)
           waveOffset == CanvasWaveOffset(multipleWaves, waveSources, sn.effects,
                                          sn.waveA)
           added == WaveSourcesOffset(backend, pattern, multipleWaves, waveSources,
                                      sn.effects)
           y == IF backend = "canvas"
                THEN CanvasCellY(pattern, cellSize, row, waveOffset)
                ELSE PercellCellPos(pattern, cellSize, canvasHeight, "y", row)
       IN  /\ cellX' = x
           /\ cellY' = y
           /\ shapeIntensity' = ShapedAt(x, y, col, row, sn)
           /\ cellIntensity' = IntensityAt(x, y, col, row, fresh, sn)
           /\ sourceOffset' = added
           /\ plainIntensity' = IntensityAt(x, y - added, col, row, fresh, sn)
    /\ lastEvent' = "cell"
    /\ hookCalls' = IF backend = "canvas"
                    THEN RenderHooks(IsHot(cellIntensity'), isTouching, autoWave)
                    ELSE {}
    /\ UNCHANGED <<touchX, touchY, isTouching, gesture, timers, frameRateLimiter,
                   lastSample, sinceEnd, trailPositions>>
    /\ UNCHANGED <<configVars, sideVars, loopVars, particleVars, drawnVars, waveVars, frameVars, colorVars>>

(***************************************************************************)
(* Wave sources.  A source keeps its position in px and, on the canvas,    *)
(* its phase in degrees; speed, amplitude and frequency only scale the     *)
(* steps and are part of the step drawn for a frame.                       *)
(***************************************************************************)
MaxInactive == 1    \* sources switched off at once

\* The Math.random() values of one new source: x, y, phase, radius.
SourceDraws ==
    {[rx |-> 0, ry |-> 500, rp |-> 0, rr |-> 500],
     [rx |-> 500, ry |-> 500, rp |-> 500, rr |-> 500]}

\* The Math.random() value behind numWaves.
WaveCountDraws == {0}

\* numWaves: 3-5 on the canvas, 4-6 on the percell backend.
NumWaves(b, rnd) ==
    IF b = "canvas"
    THEN (rnd * 3) \div 1000 + 3
    ELSE Min(4 + (rnd * 3) \div 1000, 6)

\* One source of a new batch.
NewWaveSource(b, i, d) ==
    IF b = "canvas"
    THEN [x |-> (d.rx * canvasWidth) \div 1000,
          y |-> (d.ry * canvasHeight) \div 1000,
          phase |-> (d.rp * 360) \div 1000,
          active |-> TRUE]
    ELSE [x |-> (d.rx * canvasWidth) \div 1000,
          y |-> (d.ry * canvasHeight) \div 1000,
          id |-> i - 1,
          radius |-> 40 + (d.rr * 60) \div 1000,
          active |-> TRUE]

NewWaveSources(b, draws) ==
    [i \in 1..Len(draws) |-> NewWaveSource(b, i, draws[i])]

\* Whether the init effect creates a batch: the canvas only over an empty
\* set, the percell backend whenever multipleWaves is on.
CreatesBatch(b, enabled, sources) ==
    IF b = "canvas" THEN enabled /\ Len(sources) = 0 ELSE enabled

\* The multipleWaves prop changes to v; the init effect runs.
SetMultipleWaves(v) ==
    /\ v # multipleWaves
    /\ multipleWaves' = v
    /\ IF CreatesBatch(backend, v, waveSources)
       THEN \E rnd \in WaveCountDraws :
            \E draws \in [1..NumWaves(backend, rnd) -> SourceDraws] :
                /\ waveSources' = NewWaveSources(backend, draws)
                /\ createdOver' = Len(waveSources)
       ELSE UNCHANGED <<waveSources, createdOver>>
    /\ UNCHANGED <<configVars, sideVars, loopVars, pointerVars, particleVars, drawnVars, intensityVars,
                   frameVars, colorVars>>

\* Math.cos / Math.sin of a multiple of 90 degrees, in thousandths.
CosDeg(a) ==
    CASE a % 360 = 0 -> 1000
      [] a % 360 = 180 -> 0 - 1000
      [] OTHER -> 0

SinDeg(a) ==
    CASE a % 360 = 90 -> 1000
      [] a % 360 = 270 -> 0 - 1000
      [] OTHER -> 0

\* Rounding of a product of a length and a value in thousandths.
RoundDiv1000(v) == (v + 500) \div 1000

\* speed * deltaTime * 0.05 of a canvas frame, in px.
CanvasStepDraws == {100, 300}
\* waveTime * speed of a canvas source, in degrees.
DriftDraws == {0, 90}

\* Mutant: only the lower edge is enforced.
ClampToLowerOnly(v, lo, hi) == Max(lo, v)

\* Math.max(lo, Math.min(v, hi))
ClampTo(v, lo, hi) == Max(lo, Min(v, hi))

\* updateWaveSources: the body of forEach for one source.
UpdateWaveSource(wave, step, drift) ==
    IF ~wave.active
    THEN wave
    ELSE LET angle == wave.phase + drift
             nx == wave.x + RoundDiv1000(CosDeg(angle) * step)
             ny == wave.y + RoundDiv1000(SinDeg(angle) * step)
             outX == nx < 0 \/ nx > canvasWidth
             outY == ny < 0 \/ ny > canvasHeight
             phaseX == IF outX THEN (540 - wave.phase) % 360 ELSE wave.phase
         IN  [wave EXCEPT
                 !.x = IF outX THEN ClampTo(nx, 0, canvasWidth) ELSE nx,
                 !.y = IF outY THEN ClampTo(ny, 0, canvasHeight) ELSE ny,
                 !.phase = IF outY THEN (360 - phaseX) % 360 ELSE phaseX]

\* speed * deltaTime * 2 of a percell frame, in px.
PercellStepDraws == {60, 200}
\* (cos(a), sin(a + 1.5)) of a percell source for a = 0 and a = pi.
PercellDirections == {<<1000, 997>>, <<0 - 1000, 0 - 997>>}

\* animateWaves: the body of map for one source.
AnimateWave(wave, step, dir, toggle) ==
    LET newX == wave.x + RoundDiv1000(dir[1] * step)
        newY == wave.y + RoundDiv1000(dir[2] * step)
        margin == wave.radius
    IN  [wave EXCEPT
            !.x = IF newX < margin \/ newX > canvasWidth - margin
                  THEN ClampTo(newX, margin, canvasWidth - margin) ELSE newX,
            !.y = IF newY < margin \/ newY > canvasHeight - margin
                  THEN ClampTo(newY, margin, canvasHeight - margin) ELSE newY,
            !.active = IF toggle THEN ~wave.active ELSE wave.active]

InactiveCount(sources) ==
    Cardinality({i \in 1..Len(sources) : ~sources[i].active})

\* The wave sources after one run of updateWaveSources (canvas) or of the
\* body of animateWaves (percell), over every source of the set.
WaveSourcesStep ==
    IF backend = "canvas"
    THEN \E step \in CanvasStepDraws :
         \E drifts \in [1..Len(waveSources) -> DriftDraws] :
             waveSources' = [i \in 1..Len(waveSources) |->
                                UpdateWaveSource(waveSources[i], step, drifts[i])]
    ELSE \E step \in PercellStepDraws :
         \E dirs \in [1..Len(waveSources) -> PercellDirections] :
         \E toggles \in [1..Len(waveSources) -> BOOLEAN] :
             /\ waveSources' = [i \in 1..Len(waveSources) |->
                                   AnimateWave(waveSources[i], step, dirs[i], toggles[i])]
             /\ InactiveCount(waveSources') <= MaxInactive

\* One animation frame of the wave sources, whenever it comes.
AdvanceWaves ==
    /\ multipleWaves
    /\ Len(waveSources) > 0
    /\ WaveSourcesStep
    /\ UNCHANGED <<multipleWaves, createdOver>>
    /\ UNCHANGED <<configVars, sideVars, loopVars, pointerVars, particleVars, drawnVars, intensityVars,
                   frameVars, colorVars>>

(***************************************************************************)
(* Animation loops: the requestAnimationFrame callbacks that advance the   *)
(* time accumulator and the wave sources.  Frame timestamps are kept as    *)
(* differences, in ms.  waveTime (canvas) / timeValue (percell) is kept as *)
(* the amount the current frame has added to it, in units of 0.00001; the  *)
(* ages of the trail entries are in the same unit.                         *)
(***************************************************************************)
MaxGap == 100       \* largest time difference told apart, ms

\* ms from one frame to the next: 60 and 30 frames per second.
FrameDraws == {17, 34}
\* Values of the prop animationSpeed, in tenths.
SpeedDraws == {10, 20}

\* timestamp - lastRenderTimeRef.current < 33 skips the body of a loop.
ThrottleInterval == 33
Throttled(since) == since < ThrottleInterval

\* deltaTime * 0.001 * animationSpeed (canvas), deltaTime * 0.0003 *
\* animationSpeed (percell).
TimeScale(b) == IF b = "canvas" THEN 10 ELSE 3
TimeIncrement(b, deltaTime, speed) == TimeScale(b) * deltaTime * speed

\* The loops that request frames: on the canvas updateWaveTime always and
\* updateWaveSources under multipleWaves; on the percell backend
\* updateAnimation under autoWave and animateWaves under multipleWaves with
\* a non-empty set of sources.
Loops(b, auto, multi, sources) ==
    IF b = "canvas"
    THEN {"updateWaveTime"} \cup (IF multi THEN {"updateWaveSources"} ELSE {})
    ELSE (IF auto THEN {"updateAnimation"} ELSE {}) \cup
         (IF multi /\ Len(sources) > 0 THEN {"animateWaves"} ELSE {})

\* The orders in which their first requests can have been made.
LoopOrders(b, auto, multi, sources) ==
    {q \in UNION {[1..n -> Loops(b, auto, multi, sources)] : n \in 0..2} :
        /\ Len(q) = Cardinality(Loops(b, auto, multi, sources))
        /\ \A i, j \in 1..Len(q) : i # j => q[i] # q[j]}

\* if (lastTime === 0) lastTime = time; deltaTime = time - lastTime
DeltaTime(since) == IF since < 0 THEN 0 ELSE since

AddGap(since, dt) == Min(since + dt, MaxGap)

\* The map/filter of updateWaveTime over the trail: 1.5 is 150000 units.
AgedTrail(prev, by) ==
    SelectSeq([i \in 1..Len(prev) |-> prev[i] + by], LAMBDA age : age < 150000)

\* The display delivers a frame dt ms after the one before: the callbacks
\* requested so far are due, with one timestamp for all of them.
NewFrame(dt) ==
    /\ pending = <<>>
    /\ pending' = rafQueue
    /\ frameDelta' = dt
    /\ frames' = Min(frames + 1, 2)
    /\ sinceRender' = AddGap(sinceRender, dt)
    /\ sinceTimeRun' = IF sinceTimeRun < 0 THEN sinceTimeRun ELSE AddGap(sinceTimeRun, dt)
    /\ timeAdvance' = 0
    /\ loopRuns' = {}
    /\ UNCHANGED <<animationSpeed, rafQueue>>
    /\ UNCHANGED <<configVars, sideVars, pointerVars, particleVars, drawnVars, sceneVars>>

\* The canvas callback updateWaveTime: advances waveTime, ages the trail
\* and requests the next frame.
UpdateWaveTime ==
    /\ pending # <<>>
    /\ Head(pending) = "updateWaveTime"
    /\ pending' = Tail(pending)
    /\ timeAdvance' = timeAdvance +
           TimeIncrement(backend, DeltaTime(sinceTimeRun), animationSpeed)
    /\ trailPositions' = AgedTrail(trailPositions,
           TimeIncrement(backend, DeltaTime(sinceTimeRun), animationSpeed))
    /\ sinceTimeRun' = 0
    /\ loopRuns' = loopRuns \cup {"updateWaveTime"}
    /\ UNCHANGED <<animationSpeed, rafQueue, sinceRender, frameDelta, frames>>
    /\ UNCHANGED <<touchX, touchY, isTouching, gesture, timers, frameRateLimiter,
                   lastSample, lastEvent, sinceEnd, hookCalls>>
    /\ UNCHANGED <<configVars, sideVars, particleVars, drawnVars, sceneVars>>

\* The percell callback updateAnimation: behind the 33 ms throttle it
\* advances timeValue; either way it requests the next frame.
UpdateAnimation ==
    /\ pending # <<>>
    /\ Head(pending) = "updateAnimation"
    /\ pending' = Tail(pending)
    /\ IF Throttled(sinceRender)
       THEN UNCHANGED <<sinceRender, sinceTimeRun, timeAdvance, loopRuns>>
       ELSE /\ sinceRender' = 0
            /\ timeAdvance' = timeAdvance +
                   TimeIncrement(backend, DeltaTime(sinceTimeRun), animationSpeed)
            /\ sinceTimeRun' = 0
            /\ loopRuns' = loopRuns \cup {"updateAnimation"}
    /\ UNCHANGED <<animationSpeed, rafQueue, frameDelta, frames>>
    /\ UNCHANGED <<configVars, sideVars, pointerVars, particleVars, drawnVars, sceneVars>>

\* The callbacks that move the wave sources: updateWaveSources on the
\* canvas, animateWaves behind the 33 ms throttle on the percell backend.
WaveLoop ==
    /\ pending # <<>>
    /\ Head(pending) \in {"updateWaveSources", "animateWaves"}
    /\ pending' = Tail(pending)
    /\ IF backend = "percell" /\ Throttled(sinceRender)
       THEN UNCHANGED <<sinceRender, loopRuns, waveSources>>
       ELSE /\ sinceRender' = IF backend = "percell" THEN 0 ELSE sinceRender
            /\ WaveSourcesStep
            /\ loopRuns' = loopRuns \cup {Head(pending)}
    /\ UNCHANGED <<animationSpeed, rafQueue, sinceTimeRun, timeAdvance, frameDelta, frames>>
    /\ UNCHANGED <<multipleWaves, createdOver>>
    /\ UNCHANGED <<configVars, sideVars, pointerVars, particleVars, drawnVars, intensityVars,
                   frameVars, colorVars>>

(***************************************************************************)
(* The cell loops of a frame and the error handling of drawCell.  A colour *)
(* is a record of its channels: r, g, b as integers, a in thousandths.     *)
(***************************************************************************)
MaxFrameCells == 4  \* cells drawn by one frame

\* 'rgba(0, 0, 0, 0)', the value drawCell returns from its catch block.
Transparent == [r |-> 0, g |-> 0, b |-> 0, a |-> 0]

\* The colours drawCell computes for the cells of the frame.
FrameColorDraws ==
    {[r |-> 255, g |-> 255, b |-> 255, a |-> 1000],
     [r |-> 0, g |-> 0, b |-> 0, a |-> 1000]}

\* Mutant: drawCell without its try/catch lets the error out.
CellErrorEscapesUncaught(raised) == raised

\* Whether an error raised inside drawCell leaves drawCell: its body is one
\* try block whose catch returns.
CellErrorEscapes(raised) == FALSE

\* The value drawCell returns.
CellResult(raised, color) == IF raised THEN Transparent ELSE color

\* drawGrid starts a frame: clears the canvas and enters the cell loops.
BeginFrame ==
    /\ backend = "canvas"
    /\ frameState # "drawing"
    /\ frameState' = "drawing"
    /\ frameColors' = <<>>
    /\ frameFailed' = <<>>
    /\ UNCHANGED <<configVars, sideVars, loopVars, pointerVars, particleVars, drawnVars, intensityVars,
                   waveVars, colorVars>>

\* One iteration of the cell loops: drawCell for the next cell, which may
\* raise.  An error that leaves drawCell ends the frame in the catch block
\* of drawGrid.
FrameDrawCell(raised, color) ==
    /\ frameState = "drawing"
    /\ Len(frameColors) < MaxFrameCells
    /\ IF CellErrorEscapes(raised)
       THEN /\ frameState' = "aborted"
            /\ UNCHANGED <<frameColors, frameFailed>>
       ELSE /\ frameColors' = Append(frameColors, CellResult(raised, color))
            /\ frameFailed' = Append(frameFailed, raised)
            /\ frameState' = IF Len(frameColors) + 1 = MaxFrameCells
                             THEN "done" ELSE "drawing"
    /\ UNCHANGED <<configVars, sideVars, loopVars, pointerVars, particleVars, drawnVars, intensityVars,
                   waveVars, colorVars>>

(***************************************************************************)
(* JavaScript numbers of the alpha channel.  A finite double is a sign and *)
(* a magnitude counted in units of 2^-60, held in four limbs of 16 bits,   *)
(* most significant first; arithmetic rounds to 53 significant bits, ties  *)
(* to even.  Magnitudes are below 16 and, when not 0, at least 2^-8.       *)
(***************************************************************************)
LimbBase == 256 * 256

LimbsZero == <<0, 0, 0, 0>>

LimbsAdd(x, y) ==
    LET s4 == x[4] + y[4]
        s3 == x[3] + y[3] + (s4 \div LimbBase)
        s2 == x[2] + y[2] + (s3 \div LimbBase)
        s1 == x[1] + y[1] + (s2 \div LimbBase)
    IN  <<s1, s2 % LimbBase, s3 % LimbBase, s4 % LimbBase>>

\* x - y for x >= y.
LimbsSub(x, y) ==
    LET d4 == x[4] - y[4]
        d3 == x[3] - y[3] + (d4 \div LimbBase)
        d2 == x[2] - y[2] + (d3 \div LimbBase)
        d1 == x[1] - y[1] + (d2 \div LimbBase)
    IN  <<d1, d2 % LimbBase, d3 % LimbBase, d4 % LimbBase>>

LimbsLess(x, y) ==
    \E i \in 1..4 : x[i] < y[i] /\ \A j \in 1..(i - 1) : x[j] = y[j]

LimbsHalf(x) ==
    LET h1 == x[1]
        h2 == x[2] + LimbBase * (h1 % 2)
        h3 == x[3] + LimbBase * (h2 % 2)
        h4 == x[4] + LimbBase * (h3 % 2)
    IN  <<h1 \div 2, h2 \div 2, h3 \div 2, h4 \div 2>>

\* floor(num * 2^60 / den), its lowest bit set when the division is inexact.
LimbsRatio(num, den) ==
    LET n1 == num * 4096
        n2 == (n1 % den) * LimbBase
        n3 == (n2 % den) * LimbBase
        n4 == (n3 % den) * LimbBase
        q4 == n4 \div den
    IN  <<n1 \div den, n2 \div den, n3 \div den,
          IF n4 % den # 0 /\ q4 % 2 = 0 THEN q4 + 1 ELSE q4>>

RECURSIVE Pow2Floor(_)
Pow2Floor(n) == IF n < 2 THEN 1 ELSE 2 * Pow2Floor(n \div 2)

\* The unit in the last place of a magnitude, in units of 2^-60.
Ulp(m) == IF m[1] >= 16 THEN Pow2Floor(m[1]) \div 16 ELSE 1

\* Round to 53 significant bits, ties to even.
RoundDouble(m) ==
    LET u    == Ulp(m)
        rem  == m[4] % u
        down == <<m[1], m[2], m[3], m[4] - rem>>
        up   == LimbsAdd(down, <<0, 0, 0, u>>)
    IN  IF rem = 0 THEN m
        ELSE IF 2 * rem > u \/ (2 * rem = u /\ (m[4] \div u) % 2 = 1) THEN up
        ELSE down

FloatNaN == [nan |-> TRUE, neg |-> FALSE, mag |-> LimbsZero]

Float(neg, m) == [nan |-> FALSE, neg |-> neg /\ m # LimbsZero, mag |-> m]

\* The double nearest to num / den.
FloatOf(num, den) == Float(FALSE, RoundDouble(LimbsRatio(num, den)))

FloatOne == FloatOf(1, 1)

FloatZero == FloatOf(0, 1)

FloatAdd(x, y) ==
    IF x.nan \/ y.nan THEN FloatNaN
    ELSE IF x.neg = y.neg THEN Float(x.neg, RoundDouble(LimbsAdd(x.mag, y.mag)))
    ELSE IF LimbsLess(x.mag, y.mag)
         THEN Float(y.neg, RoundDouble(LimbsSub(y.mag, x.mag)))
         ELSE Float(x.neg, RoundDouble(LimbsSub(x.mag, y.mag)))

FloatSub(x, y) == FloatAdd(x, [y EXCEPT !.neg = ~y.neg /\ ~y.nan])

\* x * f for a factor f of 0, 0.5 or 1, given in thousandths.
FloatTimes(x, f) ==
    IF x.nan THEN FloatNaN
    ELSE CASE f = 0    -> FloatZero
           [] f = 500  -> Float(x.neg, LimbsHalf(x.mag))
           [] f = 1000 -> x

\* 0 <= x <= 1.
FloatInUnit(x) == ~x.nan /\ ~x.neg /\ ~LimbsLess(FloatOne.mag, x.mag)

(***************************************************************************)
(* Colour strings and their parsers.  A string is the sequence of its      *)
(* characters; an absent (undefined) colour is the value Undefined.  A     *)
(* parsed colour is a record of r, g, b (integers, or NaN) and a (a        *)
(* double).                                                                *)
(***************************************************************************)
Undefined == <<"undefined">>

\* The value no integer channel of the model reaches stands for NaN.
NaN == 0 - 1000000

HexChars == <<"0", "1", "2", "3", "4", "5", "6", "7", "8", "9",
              "a", "b", "c", "d", "e", "f">>

UpperHexChars == <<"0", "1", "2", "3", "4", "5", "6", "7", "8", "9",
                   "A", "B", "C", "D", "E", "F">>

\* The character at index i (from 1), "" beyond the end.
At(s, i) == IF i \in 1..Len(s) THEN s[i] ELSE ""

\* String.prototype.slice(from, to) for 0 <= from <= to.
Slice(s, from, to) == SubSeq(s, from + 1, Min(to, Len(s)))

StartsWith(s, prefix) ==
    Len(s) >= Len(prefix) /\ SubSeq(s, 1, Len(prefix)) = prefix

IsDigit(c, radix) ==
    \E i \in 1..radix : HexChars[i] = c \/ UpperHexChars[i] = c

DigitValue(c) ==
    (CHOOSE i \in 1..16 : HexChars[i] = c \/ UpperHexChars[i] = c) - 1

\* The number of digits of the radix that start at index i.
RECURSIVE DigitRun(_, _, _)
DigitRun(s, i, radix) ==
    IF IsDigit(At(s, i), radix) THEN 1 + DigitRun(s, i + 1, radix) ELSE 0

\* The value of the n digits that start at index i.
RECURSIVE DigitsValue(_, _, _, _)
DigitsValue(s, i, n, radix) ==
    IF n = 0 THEN 0
    ELSE DigitsValue(s, i, n - 1, radix) * radix + DigitValue(s[i + n - 1])

RECURSIVE SkipSpaces(_, _)
SkipSpaces(s, i) == IF At(s, i) = " " THEN SkipSpaces(s, i + 1) ELSE i

\* parseInt(s, radix): white space, a sign, for radix 16 an optional 0x, then
\* the longest run of digits; NaN when there is none.
parseInt(s, radix) ==
    LET i0   == SkipSpaces(s, 1)
        neg  == At(s, i0) = "-"
        i1   == IF At(s, i0) \in {"-", "+"} THEN i0 + 1 ELSE i0
        i2   == IF radix = 16 /\ At(s, i1) = "0" /\ At(s, i1 + 1) \in {"x", "X"}
                THEN i1 + 2 ELSE i1
        n    == DigitRun(s, i2, radix)
        v    == DigitsValue(s, i2, n, radix)
    IN  IF n = 0 THEN NaN ELSE IF neg THEN 0 - v ELSE v

RECURSIVE Pow10(_)
Pow10(n) == IF n = 0 THEN 1 ELSE 10 * Pow10(n - 1)

\* parseFloat on a string of digits and dots: the longest prefix that is a
\* decimal literal, NaN when it has no digit.
parseFloat(s) ==
    LET n  == DigitRun(s, 1, 10)
        m  == IF At(s, n + 1) = "." THEN DigitRun(s, n + 2, 10) ELSE 0
    IN  IF n + m = 0 THEN FloatNaN
        ELSE FloatOf(DigitsValue(s, 1, n, 10) * Pow10(m) + DigitsValue(s, n + 2, m, 10),
                     Pow10(m))

\* The number of characters of [\d.] that start at index i.
RECURSIVE AlphaRun(_, _)
AlphaRun(s, i) ==
    IF IsDigit(At(s, i), 10) \/ At(s, i) = "." THEN 1 + AlphaRun(s, i + 1) ELSE 0

\* /rgba?\((\d+),\s*(\d+),\s*(\d+)(?:,\s*([\d.]+))?\)/ tried at index p: the
\* groups, with a = <<>> for the group that took no part.
MatchRgbaAt(s, p) ==
    LET open   == IF At(s, p + 3) = "a" /\ At(s, p + 4) = "(" THEN p + 4 ELSE p + 3
        r1     == open + 1
        rn     == DigitRun(s, r1, 10)
        g1     == SkipSpaces(s, r1 + rn + 1)
        gn     == DigitRun(s, g1, 10)
        b1     == SkipSpaces(s, g1 + gn + 1)
        bn     == DigitRun(s, b1, 10)
        a1     == SkipSpaces(s, b1 + bn + 1)
        an     == AlphaRun(s, a1)
        head   == /\ SubSeq(s, p, Min(p + 2, Len(s))) = <<"r", "g", "b">>
                  /\ At(s, open) = "("
                  /\ rn > 0 /\ At(s, r1 + rn) = ","
                  /\ gn > 0 /\ At(s, g1 + gn) = ","
                  /\ bn > 0
        withA  == head /\ At(s, b1 + bn) = "," /\ an > 0 /\ At(s, a1 + an) = ")"
        plain  == head /\ At(s, b1 + bn) = ")"
    IN  [ok |-> withA \/ plain,
         r  |-> SubSeq(s, r1, r1 + rn - 1),
         g  |-> SubSeq(s, g1, g1 + gn - 1),
         b  |-> SubSeq(s, b1, b1 + bn - 1),
         a  |-> IF withA THEN SubSeq(s, a1, a1 + an - 1) ELSE <<>>]

\* String.prototype.match: the leftmost match, ok = FALSE for null.
MatchRgba(s) ==
    IF \E p \in 1..Len(s) : MatchRgbaAt(s, p).ok
    THEN MatchRgbaAt(s, CHOOSE p \in 1..Len(s) :
                            /\ MatchRgbaAt(s, p).ok
                            /\ \A q \in 1..(p - 1) : ~MatchRgbaAt(s, q).ok)
    ELSE [ok |-> FALSE, r |-> <<>>, g |-> <<>>, b |-> <<>>, a |-> <<>>]

Rgba(r, g, b, a) == [r |-> r, g |-> g, b |-> b, a |-> a]

\* The rgb()/rgba() branch of both parsers, before their NaN handling.
RgbaChannels(m) ==
    Rgba(parseInt(m.r, 10), parseInt(m.g, 10), parseInt(m.b, 10),
         IF m.a # <<>> THEN parseFloat(m.a) ELSE FloatOne)

\* parseColor of interpolateColor (canvas backend).
CanvasParseColor(color) ==
    IF color = Undefined \/ color = <<>> THEN Rgba(0, 0, 0, FloatOne)
    ELSE IF StartsWith(color, <<"#">>)
    THEN Rgba(parseInt(Slice(color, 1, 3), 16), parseInt(Slice(color, 3, 5), 16),
              parseInt(Slice(color, 5, 7), 16), FloatOne)
    ELSE IF MatchRgba(color).ok THEN RgbaChannels(MatchRgba(color))
    ELSE Rgba(0, 0, 0, FloatOne)

NaNToZero(v) == IF v = NaN THEN 0 ELSE v

\* parseHex (per-cell backend): r, g, b of #RGB and #RRGGBB, 0 otherwise.
parseHex(hex) ==
    IF hex = Undefined \/ hex = <<>> THEN [r |-> 0, g |-> 0, b |-> 0]
    ELSE LET cleanHex == IF StartsWith(hex, <<"#">>) THEN Slice(hex, 1, Len(hex)) ELSE hex
             Pair(i)  == IF Len(cleanHex) = 3 THEN parseInt(<<cleanHex[i], cleanHex[i]>>, 16)
                         ELSE IF Len(cleanHex) = 6
                         THEN parseInt(Slice(cleanHex, 2 * i - 2, 2 * i), 16)
                         ELSE 0
         IN  [r |-> NaNToZero(Pair(1)), g |-> NaNToZero(Pair(2)), b |-> NaNToZero(Pair(3))]

\* parseColor (per-cell backend).
PercellParseColor(color) ==
    IF color = Undefined \/ color = <<>> THEN Rgba(0, 0, 0, FloatZero)
    ELSE IF StartsWith(color, <<"r", "g", "b">>) /\ MatchRgba(color).ok
    THEN LET c == RgbaChannels(MatchRgba(color))
         IN  Rgba(NaNToZero(c.r), NaNToZero(c.g), NaNToZero(c.b),
                  IF c.a.nan THEN FloatOne ELSE c.a)
    ELSE IF StartsWith(color, <<"#">>)
    THEN LET hex == parseHex(color) IN Rgba(hex.r, hex.g, hex.b, FloatOne)
    ELSE Rgba(0, 0, 0, FloatOne)

parseColor(b, color) ==
    IF b = "canvas" THEN CanvasParseColor(color) ELSE PercellParseColor(color)

(***************************************************************************)
(* Colour inputs.                                                          *)
(***************************************************************************)
NotAColor == <<"n", "o", "t", "-", "a", "-", "c", "o", "l", "o", "r">>

EmptyString == <<>>

HashOnly == <<"#">>

HashZz == <<"#", "z", "z">>

HashGarbage == <<"#", "g", "g", "g", "h", "h", "h">>

HexShort == <<"#", "a", "b", "c">>

HexLong == <<"#", "a", "a", "b", "b", "c", "c">>

HexBlack == <<"#", "0", "0", "0", "0", "0", "0">>

HexWhite == <<"#", "f", "f", "f", "f", "f", "f">>

RgbPlain == <<"r", "g", "b", "(", "1", ",", " ", "2", ",", " ", "3", ")">>

RgbaTenth == <<"r", "g", "b", "a", "(", "0", ",", " ", "0", ",", " ", "0", ",", " ", "0", ".", "1", ")">>

RgbaHalf == <<"r", "g", "b", "a", "(", "2", "5", "5", ",", " ", "0", ",", " ", "1", "0", ",", " ", "0", ".", "5", ")">>

RgbOver == <<"r", "g", "b", "(", "3", "0", "0", ",", " ", "0", ",", " ", "0", ")">>

\* Inputs that are no colour at all.
MalformedColors == {NotAColor, EmptyString, Undefined, HashOnly, HashZz, HashGarbage}

\* Well-formed colours with channels in range, each with its channels.
ValidColors ==
    {[color |-> HexShort, r |-> 170, g |-> 187, b |-> 204, a |-> FloatOne],
     [color |-> HexLong, r |-> 170, g |-> 187, b |-> 204, a |-> FloatOne],
     [color |-> HexBlack, r |-> 0, g |-> 0, b |-> 0, a |-> FloatOne],
     [color |-> HexWhite, r |-> 255, g |-> 255, b |-> 255, a |-> FloatOne],
     [color |-> RgbPlain, r |-> 1, g |-> 2, b |-> 3, a |-> FloatOne],
     [color |-> RgbaTenth, r |-> 0, g |-> 0, b |-> 0, a |-> FloatOf(1, 10)],
     [color |-> RgbaHalf, r |-> 255, g |-> 0, b |-> 10, a |-> FloatOf(1, 2)]}

ColorInputs == MalformedColors \cup {v.color : v \in ValidColors} \cup {RgbOver}

\* Interpolation factors: 0, 0.5 and 1, and one value beyond each end.
FactorDraws == {0 - 500, 0, 500, 1000, 1500}

(***************************************************************************)
(* interpolateColor and the colour of a cell.                              *)
(***************************************************************************)
\* Math.round of num / 1000.
MathRound(num) == (num + 500) \div 1000

ClampFactor(factor) == Max(0, Min(1000, factor))

\* Math.round(c1 + (c2 - c1) * f) for a factor f in thousandths.
MixChannel(c1, c2, f) ==
    IF c1 = NaN \/ c2 = NaN THEN NaN ELSE MathRound(c1 * 1000 + (c2 - c1) * f)

\* interpolateColor on parsed colours; the record stands for the string
\* 'rgba(r, g, b, a)' it returns.
MixColors(c1, c2, factor) ==
    LET f == ClampFactor(factor)
    IN  Rgba(MixChannel(c1.r, c2.r, f), MixChannel(c1.g, c2.g, f),
             MixChannel(c1.b, c2.b, f),
             FloatAdd(c1.a, FloatTimes(FloatSub(c2.a, c1.a), f)))

interpolateColor(color1, color2, factor) ==
    MixColors(CanvasParseColor(color1), CanvasParseColor(color2), factor)

\* parseColor on the string interpolateColor returned: the pattern needs
\* three runs of digits and, for the alpha, digits and dots.
ParseMixed(c) ==
    IF c.r >= 0 /\ c.g >= 0 /\ c.b >= 0 /\ ~c.a.nan /\ ~c.a.neg THEN c
    ELSE Rgba(0, 0, 0, FloatOne)

\* The decimal digits of n >= 0.
RECURSIVE DigitsOf(_)
DigitsOf(n) ==
    IF n < 10 THEN <<HexChars[n + 1]>> ELSE Append(DigitsOf(n \div 10), HexChars[(n % 10) + 1])

\* The last k decimal digits of n, with leading zeros.
RECURSIVE PaddedDigits(_, _)
PaddedDigits(n, k) ==
    IF k = 0 THEN <<>> ELSE Append(PaddedDigits(n \div 10, k - 1), HexChars[(n % 10) + 1])

\* `${v}` for an integer or NaN.
NumberString(v) ==
    IF v = NaN THEN <<"N", "a", "N">>
    ELSE IF v < 0 THEN <<"-">> \o DigitsOf(0 - v)
    ELSE DigitsOf(v)

\* The decimals d / 10^k near a magnitude, for the closest d and its
\* neighbours.
NearDecimals(m, k) ==
    LET d == (m[1] * Pow10(k) + (m[2] * Pow10(k)) \div LimbBase) \div 4096
    IN  {c \in {d - 1, d, d + 1, d + 2} : c >= 0 /\ FloatOf(c, Pow10(k)).mag = m}

\* `${x}` for a double: the shortest decimal that reads back as x, for
\* doubles that have one of at most three decimals.
FloatString(x) ==
    IF x.nan THEN <<"N", "a", "N">>
    ELSE LET k == CHOOSE j \in 0..3 :
                      /\ NearDecimals(x.mag, j) # {}
                      /\ \A i \in 0..(j - 1) : NearDecimals(x.mag, i) = {}
             d == CHOOSE c \in NearDecimals(x.mag, k) : TRUE
         IN  (IF x.neg THEN <<"-">> ELSE <<>>)
                 \o DigitsOf(d \div Pow10(k))
                 \o (IF k = 0 THEN <<>> ELSE <<".">> \o PaddedDigits(d % Pow10(k), k))

\* `rgba(${r}, ${g}, ${b}, ${a})`
toRgbaString(c) ==
    <<"r", "g", "b", "a", "(">> \o NumberString(c.r) \o <<",", " ">>
        \o NumberString(c.g) \o <<",", " ">> \o NumberString(c.b) \o <<",", " ">>
        \o FloatString(c.a) \o <<")">>

\* value || fallback on a colour string.
OrElse(color, fallback) ==
    IF color = Undefined \/ color = EmptyString THEN fallback ELSE color

HexRed == <<"#", "f", "f", "0", "0", "0", "0">>

HexCyan == <<"#", "0", "0", "f", "f", "f", "f">>

\* AnimatedCell: gridX = Math.floor(x / size), and gridY likewise.
GridCell(p, size, extent, axis, k) ==
    PercellCellPos(p, size, extent, axis, k) \div (size * 2)

\* The palette index of cell (col, row) in random colour mode.
ColorIndex(b, p, size, col, row, len) ==
    IF b = "canvas" THEN (col + row * 3) % len
    ELSE (GridCell(p, size, canvasWidth, "x", col) * 3
              + GridCell(p, size, canvasHeight, "y", row) * 7) % len

\* The colour mode switch of drawCell: t is x / width in thousandths.
CanvasCellColor(colorMode, colors, colorPalette, p, size, col, row, t, i) ==
    LET background == CanvasParseColor(OrElse(colors.background, HexBlack))
        single     == MixColors(background,
                                CanvasParseColor(OrElse(colors.primary, HexWhite)), i)
    IN  IF colorMode = "gradient"
        THEN MixColors(background,
                       ParseMixed(interpolateColor(OrElse(colors.primary, HexRed),
                                                   OrElse(colors.secondary, HexCyan), t)),
                       i)
        ELSE IF colorMode = "random" /\ Len(colorPalette) > 0
        THEN MixColors(background,
                       CanvasParseColor(
                           colorPalette[ColorIndex("canvas", p, size, col, row,
                                                   Len(colorPalette)) + 1]),
                       i)
        ELSE single

DefaultPalette ==
    <<HexRed, <<"#", "0", "0", "f", "f", "0", "0">>, <<"#", "0", "0", "0", "0", "f", "f">>, <<"#", "f", "f", "f", "f", "0", "0">>, <<"#", "f", "f", "0", "0", "f", "f">>, HexCyan>>

\* The random colour mode of the per-cell style: the palette entry scaled
\* by the intensity, which is also the opacity.
PercellRandomColor(colorPalette, p, size, col, row, i) ==
    LET palette == IF Len(colorPalette) > 0 THEN colorPalette ELSE DefaultPalette
        c       == parseHex(palette[ColorIndex("percell", p, size, col, row,
                                               Len(palette)) + 1])
    IN  Rgba(MathRound(c.r * i), MathRound(c.g * i), MathRound(c.b * i),
             FloatOf(i, 1000))

(***************************************************************************)
(* The colour functions as operations.                                     *)
(***************************************************************************)
IntensityDraws == {0, 500, 1000}

\* Theme colours handed to the grid.
ThemeDraws ==
    {[background |-> HexBlack, primary |-> HexWhite, secondary |-> Undefined],
     [background |-> HexBlack, primary |-> RgbOver, secondary |-> HexShort]}

PaletteDraws == {<<>>, <<HexRed, HexCyan>>, <<HexRed, HexCyan, HexWhite>>}

ColorModes == {"single", "gradient", "random"}

\* The calls of the colour functions: a name and the arguments.
ColorCalls ==
    {[op |-> "parse", done |-> FALSE, color |-> color] : color \in ColorInputs}
    \cup {[op |-> "roundtrip", done |-> FALSE, color |-> color] : color \in ColorInputs}
    \cup {[op |-> "interpolate", done |-> FALSE, color1 |-> color1, color2 |-> color2,
           factor |-> factor] :
              color1 \in ColorInputs, color2 \in ColorInputs, factor \in FactorDraws}
    \cup {[op |-> "select", done |-> FALSE, colorMode |-> colorMode, colors |-> colors,
           colorPalette |-> colorPalette, col |-> col, row |-> row, t |-> f,
           intensity |-> i] :
              colorMode \in ColorModes, colors \in ThemeDraws,
              colorPalette \in PaletteDraws, col \in 0..2, row \in 0..1,
              f \in IntensityDraws, i \in IntensityDraws}

ParseColor ==
    /\ colorCall.op = "parse" /\ ~colorCall.done
    /\ colorCall' = [colorCall EXCEPT !.done = TRUE]
    /\ colorValue' = parseColor(backend, colorCall.color)
    /\ colorIndex' = 0 - 1
    /\ UNCHANGED <<configVars, sideVars, loopVars, pointerVars, particleVars, drawnVars, intensityVars,
                   waveVars, frameVars>>

\* parseColor, the rgba string of its result, and parseColor on that string.
RoundTripColor ==
    /\ backend = "canvas"
    /\ colorCall.op = "roundtrip" /\ ~colorCall.done
    /\ colorCall' = [colorCall EXCEPT !.done = TRUE]
    /\ colorValue' = CanvasParseColor(toRgbaString(CanvasParseColor(colorCall.color)))
    /\ colorIndex' = 0 - 1
    /\ UNCHANGED <<configVars, sideVars, loopVars, pointerVars, particleVars, drawnVars, intensityVars,
                   waveVars, frameVars>>

InterpolateColor ==
    /\ backend = "canvas"
    /\ colorCall.op = "interpolate" /\ ~colorCall.done
    /\ colorCall' = [colorCall EXCEPT !.done = TRUE]
    /\ colorValue' = interpolateColor(colorCall.color1, colorCall.color2,
                                      colorCall.factor)
    /\ colorIndex' = 0 - 1
    /\ UNCHANGED <<configVars, sideVars, loopVars, pointerVars, particleVars, drawnVars, intensityVars,
                   waveVars, frameVars>>

\* The colour of cell (col, row): the colour mode switch of drawCell, and
\* the random colour mode of the per-cell style.
SelectCellColor ==
    /\ colorCall.op = "select" /\ ~colorCall.done
    /\ backend = "percell" => colorCall.colorMode = "random"
    /\ colorCall' = [colorCall EXCEPT !.done = TRUE]
    /\ colorValue' =
           IF backend = "canvas"
           THEN CanvasCellColor(colorCall.colorMode, colorCall.colors,
                                colorCall.colorPalette, pattern, cellSize,
                                colorCall.col, colorCall.row, colorCall.t,
                                colorCall.intensity)
           ELSE PercellRandomColor(colorCall.colorPalette, pattern, cellSize,
                                   colorCall.col, colorCall.row, colorCall.intensity)
    /\ colorIndex' =
           IF colorCall.colorMode # "random" THEN 0 - 1
           ELSE IF Len(colorCall.colorPalette) > 0
           THEN ColorIndex(backend, pattern, cellSize, colorCall.col, colorCall.row,
                           Len(colorCall.colorPalette))
           ELSE IF backend = "percell"
           THEN ColorIndex(backend, pattern, cellSize, colorCall.col, colorCall.row,
                           Len(DefaultPalette))
           ELSE 0 - 1
    /\ UNCHANGED <<configVars, sideVars, loopVars, pointerVars, particleVars, drawnVars, intensityVars,
                   waveVars, frameVars>>

(***************************************************************************)
(* The configuration store: theme, customThemes and activeCustomTheme,      *)
(* and the two AsyncStorage items saveConfiguration writes.  A stored item  *)
(* is kept as the value its JSON text stands for: the values are strings,   *)
(* null and plain objects of strings, which JSON.stringify and JSON.parse   *)
(* give back unchanged.                                                     *)
(***************************************************************************)
StoreThemes == {"default", "dark", "custom"}
\* The names the custom-theme operations are called with.
NameDraws == {"ocean", "constructor"}
\* The colour sets addCustomTheme is called with.
ThemeColorDraws == {"sunset"}
\* The property names a plain object inherits from Object.prototype.
ObjectPrototypeKeys == {"constructor", "toString", "valueOf", "hasOwnProperty"}

\* setActiveCustomTheme: if (customThemes[name]).  The lookup follows the
\* prototype chain; an own value is a colour object and an inherited one a
\* function, both truthy.
HasTheme(themes, name) ==
    name \in DOMAIN themes \/ name \in ObjectPrototypeKeys

\* { ...customThemes, [name]: colors }
WithTheme(themes, name, colors) ==
    [k \in DOMAIN themes \cup {name} |-> IF k = name THEN colors ELSE themes[k]]

\* const newCustomThemes = { ...customThemes }; delete newCustomThemes[name]
WithoutTheme(themes, name) ==
    [k \in DOMAIN themes \ {name} |-> themes[k]]

\* defaultConfig.customThemes: {}
NoThemes == [k \in {} |-> "sunset"]

\* setTheme: set({ theme, activeCustomTheme: null })
setTheme(th) ==
    /\ theme' = th
    /\ activeCustomTheme' = {}
    /\ UNCHANGED <<customThemes, storedConfig, storedThemes, tasks, gridVars>>
    /\ UNCHANGED <<configVars, loopVars, pointerVars, particleVars, drawnVars, sceneVars>>

addCustomTheme(name, colors) ==
    /\ customThemes' = WithTheme(customThemes, name, colors)
    /\ activeCustomTheme' = {name}
    /\ theme' = "custom"
    /\ UNCHANGED <<storedConfig, storedThemes, tasks, gridVars>>
    /\ UNCHANGED <<configVars, loopVars, pointerVars, particleVars, drawnVars, sceneVars>>

\* setActiveCustomTheme: active is {} for null and {name} for a name.
setActiveCustomTheme(active) ==
    /\ IF active = {}
       THEN /\ activeCustomTheme' = {}
            /\ UNCHANGED theme
       ELSE IF \E name \in active : HasTheme(customThemes, name)
            THEN /\ activeCustomTheme' = active
                 /\ theme' = "custom"
            ELSE UNCHANGED <<activeCustomTheme, theme>>
    /\ UNCHANGED <<customThemes, storedConfig, storedThemes, tasks, gridVars>>
    /\ UNCHANGED <<configVars, loopVars, pointerVars, particleVars, drawnVars, sceneVars>>

removeCustomTheme(name) ==
    /\ customThemes' = WithoutTheme(customThemes, name)
    /\ IF activeCustomTheme = {name}
       THEN /\ activeCustomTheme' = {}
            /\ theme' = "default"
       ELSE UNCHANGED <<activeCustomTheme, theme>>
    /\ UNCHANGED <<storedConfig, storedThemes, tasks, gridVars>>
    /\ UNCHANGED <<configVars, loopVars, pointerVars, particleVars, drawnVars, sceneVars>>

\* resetToDefaults: set(defaultConfig)
resetToDefaults ==
    /\ theme' = "default"
    /\ customThemes' = NoThemes
    /\ activeCustomTheme' = {}
    /\ UNCHANGED <<storedConfig, storedThemes, tasks, gridVars>>
    /\ UNCHANGED <<configVars, loopVars, pointerVars, particleVars, drawnVars, sceneVars>>

\* saveConfiguration up to its first await: the state is read once and the
\* write of the configuration item is issued.
saveConfiguration ==
    /\ Len(tasks) < MaxTasks
    /\ tasks' = Append(tasks, [op |-> "save", step |-> 1,
                               config |-> <<[theme |-> theme,
                                             activeCustomTheme |-> activeCustomTheme]>>,
                               themes |-> <<customThemes>>])
    /\ UNCHANGED <<theme, customThemes, activeCustomTheme, storedConfig, storedThemes,
                   gridVars>>
    /\ UNCHANGED <<configVars, loopVars, pointerVars, particleVars, drawnVars, sceneVars>>

\* loadConfiguration up to its first await: the read of the configuration
\* item is issued.
loadConfiguration ==
    /\ Len(tasks) < MaxTasks
    /\ tasks' = Append(tasks, [op |-> "load", step |-> 1, config |-> <<>>,
                               themes |-> <<>>])
    /\ UNCHANGED <<theme, customThemes, activeCustomTheme, storedConfig, storedThemes,
                   gridVars>>
    /\ UNCHANGED <<configVars, loopVars, pointerVars, particleVars, drawnVars, sceneVars>>

\* Storage serves the calls in the order they were issued; the caller goes on
\* when its call is served, and the call it issues next goes to the end.
Served(op, step) ==
    /\ tasks # <<>>
    /\ Head(tasks).op = op
    /\ Head(tasks).step = step

\* saveConfiguration: the first setItem resolves, the second one is issued.
SaveWritesConfig ==
    /\ Served("save", 1)
    /\ storedConfig' = Head(tasks).config
    /\ tasks' = Append(Tail(tasks), [Head(tasks) EXCEPT !.step = 2])
    /\ UNCHANGED <<theme, customThemes, activeCustomTheme, storedThemes, gridVars>>
    /\ UNCHANGED <<configVars, loopVars, pointerVars, particleVars, drawnVars, sceneVars>>

\* saveConfiguration: the second setItem resolves.
SaveWritesThemes ==
    /\ Served("save", 2)
    /\ storedThemes' = Head(tasks).themes
    /\ tasks' = Tail(tasks)
    /\ UNCHANGED <<theme, customThemes, activeCustomTheme, storedConfig, gridVars>>
    /\ UNCHANGED <<configVars, loopVars, pointerVars, particleVars, drawnVars, sceneVars>>

\* loadConfiguration: the first getItem resolves, the second one is issued.
LoadReadsConfig ==
    /\ Served("load", 1)
    /\ tasks' = Append(Tail(tasks),
                       [Head(tasks) EXCEPT !.step = 2, !.config = storedConfig])
    /\ UNCHANGED <<theme, customThemes, activeCustomTheme, storedConfig, storedThemes,
                   gridVars>>
    /\ UNCHANGED <<configVars, loopVars, pointerVars, particleVars, drawnVars, sceneVars>>

\* loadConfiguration: the second getItem resolves; if (configJson) set(config),
\* then if (customThemesJson) set({ customThemes }).
LoadApplies ==
    /\ Served("load", 2)
    /\ LET configJson == Head(tasks).config
           customThemesJson == storedThemes
       IN  /\ IF configJson # <<>>
              THEN /\ theme' = configJson[1].theme
                   /\ activeCustomTheme' = configJson[1].activeCustomTheme
              ELSE UNCHANGED <<theme, activeCustomTheme>>
           /\ IF customThemesJson # <<>>
              THEN customThemes' = customThemesJson[1]
              ELSE UNCHANGED customThemes
    /\ tasks' = Tail(tasks)
    /\ UNCHANGED <<storedConfig, storedThemes, gridVars>>
    /\ UNCHANGED <<configVars, loopVars, pointerVars, particleVars, drawnVars, sceneVars>>

\* saveConfiguration / loadConfiguration: the call being served rejects; the
\* catch block logs the error and the operation ends there.
StorageRejects ==
    /\ tasks # <<>>
    /\ tasks' = Tail(tasks)
    /\ UNCHANGED <<theme, customThemes, activeCustomTheme, storedConfig, storedThemes,
                   gridVars>>
    /\ UNCHANGED <<configVars, loopVars, pointerVars, particleVars, drawnVars, sceneVars>>

(***************************************************************************)
(* Initial states and specifications.                                      *)
(***************************************************************************)
\* No grid has been built; the container has the size of the canvas.
NoGridBuilt ==
    /\ containerWidth = canvasWidth
    /\ containerHeight = canvasHeight
    /\ skipFactor = 1
    /\ gridCells = {}
    /\ gridBuilt = FALSE

\* create(...): the store starts from defaultConfig; nothing is in storage.
StoreCreated ==
    /\ theme = "default"
    /\ customThemes = NoThemes
    /\ activeCustomTheme = {}
    /\ storedConfig = <<>>
    /\ storedThemes = <<>>
    /\ tasks = <<>>

PointerIdle ==
    /\ touchX = OffCanvas
    /\ touchY = OffCanvas
    /\ isTouching = FALSE
    /\ gesture = "idle"
    /\ timers = <<>>
    /\ frameRateLimiter = 0
    /\ lastSample = <<OffCanvas, OffCanvas>>
    /\ lastEvent = "init"
    /\ sinceEnd = 0 - 1
    /\ hookCalls = {}

NothingDrawn ==
    /\ isDrawMode = FALSE
    /\ drawnCells = <<>>
    /\ gridCoordinates = <<>>
    /\ cellDrawCalls = <<>>

NoCellDrawn ==
    /\ cellCol = 0 - 1
    /\ cellRow = 0 - 1
    /\ cellX = 0
    /\ cellY = 0
    /\ shapeIntensity = 0
    /\ sourceOffset = 0
    /\ plainIntensity = 0
    /\ cellIntensity = 0

\* No animation loop is modelled: nothing is queued and no frame has come.
NoLoops ==
    /\ trailPositions = <<>>
    /\ animationSpeed = 10
    /\ rafQueue = <<>>
    /\ pending = <<>>
    /\ sinceRender = 0
    /\ sinceTimeRun = 0 - 1
    /\ timeAdvance = 0
    /\ frameDelta = 0
    /\ frames = 0
    /\ loopRuns = {}

NoWaves ==
    /\ multipleWaves = FALSE
    /\ waveSources = <<>>
    /\ createdOver = 0 - 1

NoFrame ==
    /\ frameState = "idle"
    /\ frameColors = <<>>
    /\ frameFailed = <<>>

NoColor ==
    /\ colorCall = [op |-> "none", done |-> FALSE]
    /\ colorValue = Rgba(0, 0, 0, FloatZero)
    /\ colorIndex = 0 - 1

\* Pointer handling with the effects switched off (the props' defaults).
InitPointer ==
    /\ backend \in Backends
    /\ lightingMode \in LightingModes
    /\ lightingShape \in LightingShapes
    /\ autoWave \in BOOLEAN
    /\ pattern = "dots"
    /\ cellSize = 5
    /\ enableParticles = FALSE
    /\ enableSound = FALSE
    /\ enableHaptics = FALSE
    /\ PointerIdle
    /\ NothingDrawn
    /\ NoCellDrawn
    /\ NoLoops
    /\ NoGridBuilt
    /\ StoreCreated
    /\ NoWaves
    /\ NoFrame
    /\ NoColor
    /\ particles = <<>>
    /\ spawnsLeft = 0
    /\ ticksLeft = 0

NextPointer ==
    \/ \E s \in Samples : GestureBegin(s)
    \/ \E s \in Samples, spawn \in BOOLEAN : GestureUpdate(s, spawn)
    \/ GestureEnd
    \/ TimerFire
    \/ ClockTick
    \/ DrawGrid

SpecPointer == InitPointer /\ [][NextPointer]_vars

\* Particle spawns and ticks with enableParticles on.
InitParticles ==
    /\ backend \in Backends
    /\ lightingMode = "gradient"
    /\ lightingShape = "circular"
    /\ autoWave = FALSE
    /\ pattern = "dots"
    /\ cellSize = 5
    /\ enableParticles = TRUE
    /\ enableSound = FALSE
    /\ enableHaptics = FALSE
    /\ PointerIdle
    /\ NothingDrawn
    /\ NoCellDrawn
    /\ NoLoops
    /\ NoGridBuilt
    /\ StoreCreated
    /\ NoWaves
    /\ NoFrame
    /\ NoColor
    /\ particles = <<>>
    /\ spawnsLeft = SpawnBudget(backend)
    /\ ticksLeft = MaxTicks

NextParticles ==
    \/ \E intensity \in {500, 1000} : CreateParticles(intensity, 500)
    \/ ParticleTick

SpecParticles == InitParticles /\ [][NextParticles]_vars

\* Draw mode: samples painted into the drawn-cell list.
InitDrawn ==
    /\ backend \in Backends
    /\ lightingMode = "gradient"
    /\ lightingShape = "circular"
    /\ autoWave = FALSE
    /\ pattern \in {"dots", "grid"}
    /\ cellSize \in {5, 10}
    /\ enableParticles = FALSE
    /\ enableSound = FALSE
    /\ enableHaptics = FALSE
    /\ PointerIdle
    /\ NothingDrawn
    /\ NoCellDrawn
    /\ NoLoops
    /\ NoGridBuilt
    /\ StoreCreated
    /\ NoWaves
    /\ NoFrame
    /\ NoColor
    /\ particles = <<>>
    /\ spawnsLeft = 0
    /\ ticksLeft = 0

NextDrawn ==
    \/ \E s \in Samples : GestureBegin(s)
    \/ \E s \in Samples : GestureUpdate(s, FALSE)
    \/ ToggleDrawMode

SpecDrawn == InitDrawn /\ [][NextDrawn]_vars

\* The pointer states a cell evaluation can meet: a touch at a sample; on
\* the canvas with autoWave and no touch, the point drawGrid synthesizes;
\* otherwise the sentinel, or (canvas) the last sample before the settle
\* timer has run.
PointerStates(b, auto, shape) ==
    {<<TRUE, 10, 10>>} \cup
    (IF b = "canvas" /\ auto
     THEN {<<FALSE, AutoWavePoint(shape, trig)[1], AutoWavePoint(shape, trig)[2]>> :
              trig \in TrigDraws}
     ELSE {<<FALSE, OffCanvas, OffCanvas>>} \cup
          (IF b = "canvas" THEN {<<FALSE, 10, 10>>} ELSE {}))

\* The first and the last index of a row or column of n cells.
EdgeIndexes(n) == {0, n - 1}

\* Cell evaluations over every configuration of the lighting props.
InitIntensity ==
    /\ backend \in Backends
    /\ lightingMode \in LightingModes
    /\ lightingShape \in LightingShapes
    /\ autoWave \in BOOLEAN
    /\ pattern \in {"dots", "waves"}
    /\ cellSize = 5
    /\ enableParticles = FALSE
    /\ enableSound = FALSE
    /\ enableHaptics = FALSE
    /\ \E ps \in PointerStates(backend, autoWave, lightingShape) :
           /\ isTouching = ps[1]
           /\ touchX = ps[2]
           /\ touchY = ps[3]
           /\ gesture = IF ps[1] THEN "down" ELSE "idle"
           /\ lastSample = IF ps[1] THEN <<ps[2], ps[3]>> ELSE <<OffCanvas, OffCanvas>>
    /\ timers = <<>>
    /\ frameRateLimiter = 0
    /\ lastEvent = "init"
    /\ sinceEnd = 0 - 1
    /\ hookCalls = {}
    /\ isDrawMode \in BOOLEAN
    /\ drawnCells = IF isDrawMode THEN <<<<10, 10>>>> ELSE <<>>
    /\ gridCoordinates =
           IF backend = "percell" THEN ConvertCells(backend, cellSize, drawnCells) ELSE <<>>
    /\ cellDrawCalls = <<>>
    /\ NoCellDrawn
    /\ NoLoops
    /\ NoGridBuilt
    /\ StoreCreated
    /\ NoWaves
    /\ NoFrame
    /\ NoColor
    /\ particles = <<>>
    /\ spawnsLeft = 0
    /\ ticksLeft = 0

NextIntensity ==
    \E col \in EdgeIndexes(GridCount(backend, pattern, cellSize, canvasWidth, "x")),
       row \in EdgeIndexes(GridCount(backend, pattern, cellSize, canvasHeight, "y")),
       fresh \in (IF backend = "percell" /\ lightingMode = "pulse" THEN BOOLEAN ELSE {TRUE}),
       sn \in SineInputs(backend) :
        DrawCell(col, row, fresh, sn)

SpecIntensity == InitIntensity /\ [][NextIntensity]_vars

\* Wave sources switched on and off and advanced frame by frame.
InitWaves ==
    /\ backend \in Backends
    /\ lightingMode = "gradient"
    /\ lightingShape = "circular"
    /\ autoWave = FALSE
    /\ pattern = "waves"
    /\ cellSize = 5
    /\ enableParticles = FALSE
    /\ enableSound = FALSE
    /\ enableHaptics = FALSE
    /\ PointerIdle
    /\ NothingDrawn
    /\ NoCellDrawn
    /\ NoLoops
    /\ NoGridBuilt
    /\ StoreCreated
    /\ NoWaves
    /\ NoFrame
    /\ NoColor
    /\ particles = <<>>
    /\ spawnsLeft = 0
    /\ ticksLeft = 0

NextWaves ==
    \/ \E v \in BOOLEAN : SetMultipleWaves(v)
    \/ AdvanceWaves

SpecWaves == InitWaves /\ [][NextWaves]_vars

\* The hooks under every setting of their three flags: gestures, frames and
\* single cell evaluations.
InitHooks ==
    /\ backend \in Backends
    /\ lightingMode = "gradient"
    /\ lightingShape = "circular"
    /\ autoWave \in BOOLEAN
    /\ pattern = "dots"
    /\ cellSize = 5
    /\ enableParticles \in BOOLEAN
    /\ enableSound \in BOOLEAN
    /\ enableHaptics \in BOOLEAN
    /\ PointerIdle
    /\ NothingDrawn
    /\ NoCellDrawn
    /\ NoLoops
    /\ NoGridBuilt
    /\ StoreCreated
    /\ NoWaves
    /\ NoFrame
    /\ NoColor
    /\ particles = <<>>
    /\ spawnsLeft = MaxHookSpawns
    /\ ticksLeft = MaxTicks

NextHooks ==
    \/ \E s \in Samples : GestureBegin(s)
    \/ \E s \in Samples, spawn \in BOOLEAN : GestureUpdate(s, spawn)
    \/ GestureEnd
    \/ DrawGrid
    \/ ParticleTick
    \/ \E col \in EdgeIndexes(GridCount(backend, pattern, cellSize, canvasWidth, "x")),
          sn \in SineInputs("canvas") :
           DrawCell(col, 0, TRUE, sn)

SpecHooks == InitHooks /\ [][NextHooks]_vars

\* Frames whose cells may raise errors.
InitFrame ==
    /\ backend = "canvas"
    /\ lightingMode = "gradient"
    /\ lightingShape = "circular"
    /\ autoWave = FALSE
    /\ pattern \in {"dots", "grid"}
    /\ cellSize = 5
    /\ enableParticles = FALSE
    /\ enableSound = FALSE
    /\ enableHaptics = FALSE
    /\ PointerIdle
    /\ NothingDrawn
    /\ NoCellDrawn
    /\ NoLoops
    /\ NoGridBuilt
    /\ StoreCreated
    /\ NoWaves
    /\ NoFrame
    /\ NoColor
    /\ particles = <<>>
    /\ spawnsLeft = 0
    /\ ticksLeft = 0

NextFrame ==
    \/ BeginFrame
    \/ \E raised \in BOOLEAN, color \in FrameColorDraws : FrameDrawCell(raised, color)

SpecFrame == InitFrame /\ [][NextFrame]_vars

\* The colour functions on drawn inputs.
InitColor ==
    /\ backend \in Backends
    /\ lightingMode = "gradient"
    /\ lightingShape = "circular"
    /\ autoWave = FALSE
    /\ pattern = "dots"
    /\ cellSize = 5
    /\ enableParticles = FALSE
    /\ enableSound = FALSE
    /\ enableHaptics = FALSE
    /\ PointerIdle
    /\ NothingDrawn
    /\ NoCellDrawn
    /\ NoLoops
    /\ NoGridBuilt
    /\ StoreCreated
    /\ NoWaves
    /\ NoFrame
    /\ colorCall \in ColorCalls
    /\ colorValue = Rgba(0, 0, 0, FloatZero)
    /\ colorIndex = 0 - 1
    /\ particles = <<>>
    /\ spawnsLeft = 0
    /\ ticksLeft = 0

NextColor == ParseColor \/ RoundTripColor \/ InterpolateColor \/ SelectCellColor

SpecColor == InitColor /\ [][NextColor]_vars

\* A batch of sources after one animation frame: every source from the same
\* draw d, moved by the same step; toggles are the per-cell backend's
\* switches of the active flags.
AdvancedOnce(b, d, step, toggles) ==
    [i \in 1..NumWaves(b, 0) |->
        IF b = "canvas"
        THEN UpdateWaveSource(NewWaveSource(b, i, d), step, 0)
        ELSE AnimateWave(NewWaveSource(b, i, d), step, <<1000, 997>>, toggles[i])]

\* Cell evaluations under a touch and under wave sources.
InitField ==
    /\ backend \in Backends
    /\ lightingMode = "gradient"
    /\ lightingShape = "circular"
    /\ autoWave = FALSE
    /\ pattern \in {"dots", "waves"}
    /\ cellSize = 5
    /\ enableParticles = FALSE
    /\ enableSound = FALSE
    /\ enableHaptics = FALSE
    /\ \E ps \in {<<TRUE, 30, 40>>, <<FALSE, OffCanvas, OffCanvas>>} :
           /\ isTouching = ps[1]
           /\ touchX = ps[2]
           /\ touchY = ps[3]
           /\ gesture = IF ps[1] THEN "down" ELSE "idle"
           /\ lastSample = <<ps[2], ps[3]>>
    /\ timers = <<>>
    /\ frameRateLimiter = 0
    /\ lastEvent = "init"
    /\ sinceEnd = 0 - 1
    /\ hookCalls = {}
    /\ NothingDrawn
    /\ NoCellDrawn
    /\ NoLoops
    /\ NoGridBuilt
    /\ StoreCreated
    /\ multipleWaves \in BOOLEAN
    /\ IF multipleWaves
       THEN \E d \in SourceDraws,
               step \in (IF backend = "canvas" THEN CanvasStepDraws ELSE PercellStepDraws),
               toggles \in [1..NumWaves(backend, 0) -> BOOLEAN] :
                waveSources = AdvancedOnce(backend, d, step, toggles)
       ELSE waveSources = <<>>
    /\ createdOver = IF multipleWaves THEN 0 ELSE 0 - 1
    /\ NoFrame
    /\ NoColor
    /\ particles = <<>>
    /\ spawnsLeft = 0
    /\ ticksLeft = 0

NextField ==
    \E col \in EdgeIndexes(GridCount(backend, pattern, cellSize, canvasWidth, "x")),
       row \in EdgeIndexes(GridCount(backend, pattern, cellSize, canvasHeight, "y")),
       sn \in SineInputs(backend) :
        DrawCell(col, row, TRUE, sn)

SpecField == InitField /\ [][NextField]_vars

\* The ticks that age out a particle of full life at the slowest decay.
TicksToDie == FullLife \div 50

\* Particles spawned and aged until none is left: the tick budget covers
\* the whole life of every particle the spawn budget allows.
InitDecay ==
    /\ backend \in Backends
    /\ lightingMode = "gradient"
    /\ lightingShape = "circular"
    /\ autoWave = FALSE
    /\ pattern = "dots"
    /\ cellSize = 5
    /\ enableParticles = TRUE
    /\ enableSound = FALSE
    /\ enableHaptics = FALSE
    /\ PointerIdle
    /\ NothingDrawn
    /\ NoCellDrawn
    /\ NoLoops
    /\ NoGridBuilt
    /\ StoreCreated
    /\ NoWaves
    /\ NoFrame
    /\ NoColor
    /\ particles = <<>>
    /\ spawnsLeft = MaxDecaySpawns
    /\ ticksLeft = TicksToDie * MaxDecaySpawns

NextDecay ==
    \/ \E intensity \in {500, 1000}, rnd \in RandomDraws : CreateParticles(intensity, rnd)
    \/ ParticleTick

\* The frames of the canvas and the 33 ms interval of the percell backend
\* keep coming while the list holds a particle.
SpecDecay == InitDecay /\ [][NextDecay]_vars /\ WF_vars(ParticleTick)

\* Touches with particles on, their settle timers and the particle ticks.
InitSettle ==
    /\ backend \in Backends
    /\ lightingMode = "gradient"
    /\ lightingShape = "circular"
    /\ autoWave = FALSE
    /\ pattern = "dots"
    /\ cellSize = 5
    /\ enableParticles = TRUE
    /\ enableSound = FALSE
    /\ enableHaptics = FALSE
    /\ PointerIdle
    /\ NothingDrawn
    /\ NoCellDrawn
    /\ NoLoops
    /\ NoGridBuilt
    /\ StoreCreated
    /\ NoWaves
    /\ NoFrame
    /\ NoColor
    /\ particles = <<>>
    /\ spawnsLeft = MaxSettleSpawns
    /\ ticksLeft = MaxTicks

NextSettle ==
    \/ \E s \in Samples : GestureBegin(s)
    \/ \E s \in Samples : GestureUpdate(s, FALSE)
    \/ GestureEnd
    \/ TimerFire
    \/ ClockTick
    \/ ParticleTick

\* Time passes, and a setTimeout callback whose delay has elapsed runs.
SpecSettle ==
    /\ InitSettle /\ [][NextSettle]_vars
    /\ WF_vars(ClockTick)
    /\ WF_vars(TimerFire)

\* A mounted component with its loops requested and no frame delivered yet:
\* lastRenderTimeRef.current is 0 and the first timestamp is far above it.
LoopsRequested ==
    /\ trailPositions = <<>>
    /\ animationSpeed \in SpeedDraws
    /\ rafQueue \in LoopOrders(backend, autoWave, multipleWaves, waveSources)
    /\ pending = <<>>
    /\ sinceRender = MaxGap
    /\ sinceTimeRun = 0 - 1
    /\ timeAdvance = 0
    /\ frameDelta = 0
    /\ frames = 0
    /\ loopRuns = {}

\* The animation loops under every setting of autoWave and multipleWaves.
InitTime ==
    /\ backend \in Backends
    /\ lightingMode = "gradient"
    /\ lightingShape = "circular"
    /\ autoWave \in BOOLEAN
    /\ pattern = "waves"
    /\ cellSize = 5
    /\ enableParticles = FALSE
    /\ enableSound = FALSE
    /\ enableHaptics = FALSE
    /\ PointerIdle
    /\ NothingDrawn
    /\ NoCellDrawn
    /\ multipleWaves \in BOOLEAN
    /\ IF multipleWaves
       THEN \E d \in SourceDraws :
                waveSources = NewWaveSources(backend, [i \in 1..NumWaves(backend, 0) |-> d])
       ELSE waveSources = <<>>
    /\ createdOver = IF multipleWaves THEN 0 ELSE 0 - 1
    /\ LoopsRequested
    /\ NoGridBuilt
    /\ StoreCreated
    /\ NoFrame
    /\ NoColor
    /\ particles = <<>>
    /\ spawnsLeft = 0
    /\ ticksLeft = 0

NextTime ==
    \/ \E dt \in FrameDraws : NewFrame(dt)
    \/ UpdateWaveTime
    \/ UpdateAnimation
    \/ WaveLoop

SpecTime == InitTime /\ [][NextTime]_vars

\* The percell backend with autoWave and multipleWaves on: both of its
\* loops request frames.
InitThrottle ==
    /\ InitTime
    /\ backend = "percell"
    /\ autoWave
    /\ multipleWaves

NextThrottle ==
    \/ \E dt \in FrameDraws : NewFrame(dt)
    \/ UpdateAnimation
    \/ WaveLoop

\* The display keeps delivering frames, and a callback that is due runs.
SpecThrottle ==
    /\ InitThrottle /\ [][NextThrottle]_vars
    /\ WF_vars(\E dt \in FrameDraws : NewFrame(dt))
    /\ WF_vars(UpdateAnimation)
    /\ WF_vars(WaveLoop)

\* One grid build of the percell backend for each pattern, cell size and
\* container size.
InitGrid ==
    /\ backend = "percell"
    /\ lightingMode = "gradient"
    /\ lightingShape = "circular"
    /\ autoWave = FALSE
    /\ pattern \in Patterns
    /\ cellSize \in CellSizeDraws
    /\ enableParticles = FALSE
    /\ enableSound = FALSE
    /\ enableHaptics = FALSE
    /\ PointerIdle
    /\ NothingDrawn
    /\ NoCellDrawn
    /\ NoLoops
    /\ containerWidth \in WidthDraws
    /\ containerHeight \in HeightDraws
    /\ skipFactor = 1
    /\ gridCells = {}
    /\ gridBuilt = FALSE
    /\ StoreCreated
    /\ NoWaves
    /\ NoFrame
    /\ NoColor
    /\ particles = <<>>
    /\ spawnsLeft = 0
    /\ ticksLeft = 0

NextGrid == BuildGrid

SpecGrid == InitGrid /\ [][NextGrid]_vars

\* The configuration store under every order of its operations.
InitStore ==
    /\ backend = "percell"
    /\ lightingMode = "gradient"
    /\ lightingShape = "circular"
    /\ autoWave = FALSE
    /\ pattern = "dots"
    /\ cellSize = 5
    /\ enableParticles = FALSE
    /\ enableSound = FALSE
    /\ enableHaptics = FALSE
    /\ PointerIdle
    /\ NothingDrawn
    /\ NoCellDrawn
    /\ NoLoops
    /\ NoGridBuilt
    /\ StoreCreated
    /\ NoWaves
    /\ NoFrame
    /\ NoColor
    /\ particles = <<>>
    /\ spawnsLeft = 0
    /\ ticksLeft = 0

NextStore ==
    \/ \E th \in StoreThemes : setTheme(th)
    \/ \E name \in NameDraws, colors \in ThemeColorDraws : addCustomTheme(name, colors)
    \/ \E active \in {{}} \cup {{name} : name \in NameDraws} : setActiveCustomTheme(active)
    \/ \E name \in NameDraws : removeCustomTheme(name)
    \/ resetToDefaults
    \/ saveConfiguration
    \/ loadConfiguration
    \/ SaveWritesConfig
    \/ SaveWritesThemes
    \/ LoadReadsConfig
    \/ LoadApplies
    \/ StorageRejects

SpecStore == InitStore /\ [][NextStore]_vars

(***************************************************************************)
(* Claims.                                                                 *)
(***************************************************************************)
\* The settle delay the specification states: 800 ms under simple/highlight
\* lighting, 500 ms otherwise.
StatedDelay == IF lightingMode \in {"simple", "highlight"} THEN LongDelay ELSE StandardDelay

\* C2: after end(), with no begin() since, the pointer is reported active
\* until the settle delay has elapsed and inactive once it has.
C2_SettleTiming ==
    sinceEnd >= 0 =>
        /\ sinceEnd < StatedDelay => isTouching
        /\ sinceEnd > StatedDelay => ~isTouching

\* C3: a settle timer that fires while a newer touch is down changes
\* nothing: the pointer stays active and its position is not the sentinel.
C3_SupersededTimerNoOp ==
    (lastEvent = "timer" /\ gesture = "down") =>
        /\ isTouching
        /\ touchX # OffCanvas
        /\ touchY # OffCanvas

\* C7 as stated: after every begin/update the stored position is the sample
\* delivered last.
C7_LastWriteWins ==
    lastEvent \in {"begin", "update"} => <<touchX, touchY>> = lastSample

\* C7 as amended: after begin, and after every update the backend accepts
\* (all of them on the canvas, every second one on the percell backend),
\* the stored position is the sample delivered last.
C7_AcceptedSampleStored ==
    /\ lastEvent = "begin" => <<touchX, touchY>> = lastSample
    /\ (lastEvent = "update" /\ (backend = "canvas" \/ frameRateLimiter = 0)) =>
           <<touchX, touchY>> = lastSample

C7_Witness ==
    /\ lastEvent = "update"
    /\ backend = "percell"
    /\ frameRateLimiter = 0
    /\ <<touchX, touchY>> = <<20, 30>>
    /\ lastSample = <<20, 30>>

\* C8: the particle list never exceeds the backend's cap, and a spawn keeps
\* the whole new batch behind a suffix of the old list, dropping from the
\* front only what the cap forces out.
C8_ParticleCap ==
    /\ [](Len(particles) <= ParticleCap(backend))
    /\ [][spawnsLeft' < spawnsLeft =>
            \E k \in 0..Len(particles), n \in 1..5 :
                /\ Len(particles') = Len(particles) - k + n
                /\ \A i \in 1..(Len(particles) - k) : particles'[i] = particles[k + i]
                /\ \A i \in (Len(particles) - k + 1)..Len(particles') :
                       particles'[i].born = SpawnBudget(backend) - spawnsLeft
                /\ n = ParticleCount(backend, 500) \/ n = ParticleCount(backend, 1000)
                /\ k > 0 => Len(particles') = ParticleCap(backend)]_vars

C8_Witness ==
    /\ Len(particles) = ParticleCap(backend)
    /\ particles[1].born > 0
    /\ spawnsLeft = 0
    /\ ticksLeft < MaxTicks

\* The grid coordinates a cell can have in the checked window.
GridRange == 0..4

\* C10: a cell is flagged drawn exactly when its grid coordinate is the
\* conversion of an entry of the drawn-cell list supplied now.
C10_DrawnIffListed ==
    \A col \in GridRange, row \in GridRange :
        IsDrawnCell(col, row) <=>
            \E i \in 1..Len(drawnCells) :
                ToGridCoord(backend, cellSize, drawnCells[i]) = <<col, row>>

\* C1: the intensity used to colour and size a cell lies in [0, 1].
C1_IntensityInUnitRange ==
    cellCol >= 0 => (cellIntensity >= 0 /\ cellIntensity <= 1000)

C6_SimpleHighlightBinarize ==
    (cellCol >= 0 /\ lightingMode \in {"simple", "highlight"}) =>
        cellIntensity = IF shapeIntensity > 0 THEN 1000 ELSE 0

\* The displacements along one axis that a frame of the model can draw.
Displacements == {0, 60, 0 - 60, 100, 0 - 100, 199, 0 - 199, 200, 0 - 200, 300, 0 - 300}

\* A coordinate went from old to new by a displacement that kept it inside
\* [lo, hi], or by one that crossed lo or hi and was clamped to that end.
MovedWithin(old, new, lo, hi) ==
    \E d \in Displacements :
        \/ old + d >= lo /\ old + d <= hi /\ new = old + d
        \/ old + d < lo /\ new = lo
        \/ old + d > hi /\ new = hi

\* Every source lies on the canvas.
SourcesOnCanvas ==
    \A i \in 1..Len(waveSources) :
        /\ waveSources[i].x >= 0 /\ waveSources[i].x <= canvasWidth
        /\ waveSources[i].y >= 0 /\ waveSources[i].y <= canvasHeight

\* The step is an advance of the wave sources.
IsAdvance == multipleWaves' = multipleWaves /\ waveSources' # waveSources

\* C4 as stated: every source stays on the canvas, and a source that
\* crosses a canvas boundary is clamped to that boundary.
C4_WaveBounding ==
    /\ []SourcesOnCanvas
    /\ [][IsAdvance =>
            \A i \in 1..Len(waveSources) :
                waveSources[i].active =>
                    /\ MovedWithin(waveSources[i].x, waveSources'[i].x, 0, canvasWidth)
                    /\ MovedWithin(waveSources[i].y, waveSources'[i].y, 0, canvasHeight)]_vars

\* The distance a source keeps from the canvas boundary: none on the
\* canvas, its radius on the percell backend.
Inset(i) == IF backend = "canvas" THEN 0 ELSE waveSources[i].radius

\* C4 as amended: every source stays on the canvas, and a source that
\* leaves the canvas inset by its margin is clamped to the inset boundary
\* (margin 0 on the canvas, the source's radius on the percell backend).
C4_WaveBoundingInset ==
    /\ []SourcesOnCanvas
    /\ [][IsAdvance =>
            \A i \in 1..Len(waveSources) :
                (backend = "percell" \/ waveSources[i].active) =>
                    /\ MovedWithin(waveSources[i].x, waveSources'[i].x,
                                   Inset(i), canvasWidth - Inset(i))
                    /\ MovedWithin(waveSources[i].y, waveSources'[i].y,
                                   Inset(i), canvasHeight - Inset(i))]_vars

C4_Witness ==
    /\ backend = "percell"
    /\ multipleWaves
    /\ createdOver = 0
    /\ Len(waveSources) > 0
    /\ \A i \in 1..Len(waveSources) :
           waveSources[i].x \in {70, 130} /\ waveSources[i].y \in {70, 130}
    /\ waveSources[1].x = 70
    /\ waveSources[2].x = 130

\* C9: a batch is created only over an empty set, and the set is empty
\* whenever multipleWaves is off.
C9_WaveLifecycle ==
    /\ ~multipleWaves => waveSources = <<>>
    /\ createdOver \in {0 - 1, 0}

\* The step is a begin or update handler.
IsSampleStep == lastEvent' \in {"begin", "update"} /\ isDrawMode' = isDrawMode

\* C11 as stated: in draw mode every begin and every update sample makes
\* exactly one onCellDraw call carrying that sample; with draw mode off no
\* call is made.
C11_OneCallPerSample ==
    [][IsSampleStep =>
          cellDrawCalls' = IF isDrawMode THEN <<lastSample'>> ELSE <<>>]_vars

\* C11 as amended: in draw mode every begin sample, and every update sample
\* the backend accepts (all on the canvas, every second one on the percell
\* backend), makes exactly one onCellDraw call carrying that sample; a
\* dropped update and any sample with draw mode off make none.
C11_OneCallPerAcceptedSample ==
    [][IsSampleStep =>
          cellDrawCalls' =
              IF isDrawMode /\ (lastEvent' = "begin" \/ backend = "canvas"
                                \/ frameRateLimiter' = 0)
              THEN <<lastSample'>>
              ELSE <<>>]_vars

C11_Witness ==
    /\ backend = "percell"
    /\ isDrawMode
    /\ lastEvent = "update"
    /\ frameRateLimiter = 0
    /\ lastSample = <<20, 30>>
    /\ cellDrawCalls = <<<<20, 30>>>>
    /\ Len(drawnCells) = 2

\* The flag that enables a hook.
HookEnabled(h) ==
    CASE h = "sound" -> enableSound
      [] h = "haptics" -> enableHaptics
      [] OTHER -> enableParticles

\* C12: a cell evaluation produces a hook's effect only for a cell whose
\* intensity is above 0.7 while the pointer is active or autoWave is on; no
\* handler produces the effect of a hook whose flag is off, and no particle
\* exists while enableParticles is off.
C12_HooksGated ==
    /\ \A h \in hookCalls : HookEnabled(h)
    /\ (lastEvent = "cell" /\ hookCalls # {}) =>
           (cellIntensity > 700 /\ (isTouching \/ autoWave))
    /\ ~enableParticles => particles = <<>>

C12_Witness ==
    /\ backend = "canvas"
    /\ lastEvent = "cell"
    /\ enableSound
    /\ ~enableParticles
    /\ isTouching
    /\ cellIntensity > 700
    /\ hookCalls = {"sound"}

\* C13: a cell that raises yields the transparent fallback colour, no frame
\* is aborted, and a finished frame has processed every cell.
C13_BadCellKeepsFrame ==
    /\ \A i \in 1..Len(frameFailed) : frameFailed[i] => frameColors[i] = Transparent
    /\ frameState # "aborted"
    /\ frameState = "done" => Len(frameColors) = MaxFrameCells

C13_Witness ==
    /\ frameState = "done"
    /\ frameFailed[1]
    /\ frameColors[1] = Transparent
    /\ \A i \in 2..MaxFrameCells :
           ~frameFailed[i] /\ frameColors[i] # Transparent

\* C14: parse returns one of the two fallbacks, and so no NaN channel, for
\* every malformed or empty colour input.
C14_MalformedGivesFallback ==
    (colorCall.op = "parse" /\ colorCall.done /\ colorCall.color \in MalformedColors)
        => colorValue \in {Rgba(0, 0, 0, FloatOne), Rgba(0, 0, 0, FloatZero)}

\* C15: parse returns the channels and alpha of 3-digit hex, 6-digit hex and
\* rgb()/rgba() strings, on each backend.
C15_ParseReadsValidColors ==
    \A v \in ValidColors :
        (colorCall.op = "parse" /\ colorCall.done /\ colorCall.color = v.color)
            => colorValue = Rgba(v.r, v.g, v.b, v.a)

\* The valid colours whose channels the canvas parser returns.
CanvasReadColors ==
    {v \in ValidColors : CanvasParseColor(v.color) = Rgba(v.r, v.g, v.b, v.a)}

\* C16: for valid colours A and B, interpolate(A, B, 0) is exactly A and
\* interpolate(A, B, 1) is exactly B, in r, g, b and a.
C16_InterpolateEndpoints ==
    \A va, vb \in CanvasReadColors :
        (/\ colorCall.op = "interpolate" /\ colorCall.done
         /\ colorCall.color1 = va.color /\ colorCall.color2 = vb.color)
            => /\ colorCall.factor = 0 => colorValue = Rgba(va.r, va.g, va.b, va.a)
               /\ colorCall.factor = 1000 => colorValue = Rgba(vb.r, vb.g, vb.b, vb.a)

\* C17: the colour selected for a cell has r, g, b within [0, 255] and alpha
\* within [0, 1].
C17_CellColorInRange ==
    (colorCall.op = "select" /\ colorCall.done)
        => /\ \A c \in {colorValue.r, colorValue.g, colorValue.b} :
                  c # NaN /\ c >= 0 /\ c <= 255
           /\ FloatInUnit(colorValue.a)

\* C18: in random colour mode the palette entry of cell (col, row) has index
\* (col + row * 3) mod paletteLength, a valid index of the palette.
C18_PaletteIndex ==
    (/\ colorCall.op = "select" /\ colorCall.done
     /\ colorCall.colorMode = "random" /\ Len(colorCall.colorPalette) > 0)
        => /\ colorIndex = (colorCall.col + colorCall.row * 3) % Len(colorCall.colorPalette)
           /\ colorIndex \in 0..(Len(colorCall.colorPalette) - 1)

AllInactive == Len(waveSources) > 0 /\ InactiveCount(waveSources) = Len(waveSources)

StatedFalloff(d) == Max(0, 1000 - (d * 1000) \div interactionRadius)

\* A cell evaluated under the circular shape with an active pointer, no
\* autoWave and the default lighting mode.
CircularCase ==
    /\ lastEvent = "cell"
    /\ lightingShape = "circular"
    /\ isTouching
    /\ ~autoWave
    /\ lightingMode = "gradient"

C21_ColorRoundTrip ==
    \A v \in ValidColors :
        (colorCall.op = "roundtrip" /\ colorCall.done /\ colorCall.color = v.color)
            => colorValue = CanvasParseColor(v.color)


\* A step of the tick: a frame of the canvas (drawGrid with drawParticles)
\* or a run of the particle update.
ParticleTickStep == ticksLeft' < ticksLeft \/ lastEvent' = "frame"

\* The particle list changes in steps of the tick only.
TickIsOnlyParticleWriter == [][particles' # particles => ParticleTickStep]_vars

\* A frame that calls createParticles leaves a full-life particle at the end
\* of the list.
NoSpawnLost ==
    [][(backend = "canvas" /\ lastEvent # "frame" /\ lastEvent' = "frame"
            /\ "particles" \in hookCalls')
          => (particles' # <<>> /\ particles'[Len(particles')].life = FullLife)]_vars

\* C22: the particle collection is written by the tick only, never by a
\* gesture handler, and no particle created during a tick is overwritten by
\* the tick's own update of the collection.
C22_SingleWriterNoLostUpdate == TickIsOnlyParticleWriter /\ NoSpawnLost

\* A frame in which the time loop can compute a difference has ended: every
\* callback of the frame has run and it was not the first frame.
FrameEnded == pending = <<>> /\ frames >= 2

\* C24: on every tick the time accumulator advances by deltaTime *
\* animationSpeed (in the unit of the backend), whatever autoWave,
\* multipleWaves and the pointer are, and it never decreases.
C24_TimeAdvances ==
    /\ timeAdvance >= 0
    /\ FrameEnded => timeAdvance = TimeIncrement(backend, frameDelta, animationSpeed)

\* C28: with autoWave and multipleWaves on, the body of the wave-source
\* loop and the body of the time loop of the percell backend each run
\* infinitely often.
C28_BothLoopsProgress ==
    /\ []<>("animateWaves" \in loopRuns)
    /\ []<>("updateAnimation" \in loopRuns)

\* The pointer is idle: no touch, the position at the sentinel, no trail.
IdleAgain ==
    /\ ~isTouching
    /\ touchX = OffCanvas
    /\ touchY = OffCanvas
    /\ trailPositions = <<>>

\* A step of the settle timer's callback that resets the pointer.
IsSettleReset == lastEvent' = "timer" /\ Len(timers') < Len(timers) /\ touchX' = OffCanvas

SettlesEventually == (lastEvent = "end") ~> (gesture = "down" \/ IdleAgain)

\* C23 as stated: after end(), unless a begin() follows, the pointer is
\* eventually reset to the sentinel, and the timer step that resets it
\* clears the trail and the particles.
C23_SettleClearsAccumulators ==
    /\ SettlesEventually
    /\ [][IsSettleReset => (trailPositions' = <<>> /\ particles' = <<>>)]_vars

\* C23, corrected: after end(), unless a begin() follows, the pointer is
\* eventually reset to the sentinel with the trail cleared; the timer step
\* leaves the particle list as it is (the particles go with the ticks).
C23_SettleClearsTrail ==
    /\ SettlesEventually
    /\ [][IsSettleReset => (trailPositions' = <<>> /\ particles' = particles)]_vars

\* A settle timer has reset the pointer after a touch that left a trail
\* behind, with particles of the touch still alive.
C23_Witness ==
    /\ backend = "canvas"
    /\ lastEvent = "timer"
    /\ gesture = "idle"
    /\ lastSample # <<OffCanvas, OffCanvas>>
    /\ IdleAgain
    /\ particles # <<>>
    /\ spawnsLeft = 0

\* C25: a frame sets the pointer position to a synthesized auto-wave
\* position when autoWave is on and the pointer is inactive; while the
\* pointer is active, or autoWave is off, a frame leaves the position as
\* it is.
C25_AutoWaveOverwrite ==
    [][lastEvent' = "frame" =>
          IF autoWave /\ ~isTouching
          THEN \E trig \in TrigDraws :
                   <<touchX', touchY'>> = AutoWavePoint(lightingShape, trig)
          ELSE touchX' = touchX /\ touchY' = touchY]_vars

\* A frame has moved the pointer of a released touch to an auto-wave
\* position.
C25_Witness ==
    /\ lastEvent = "frame"
    /\ autoWave
    /\ ~isTouching
    /\ lightingShape = "linear"
    /\ lastSample # <<OffCanvas, OffCanvas>>
    /\ <<touchX, touchY>> = AutoWavePoint("linear", <<0, 1000>>)

\* What the specification says a tick takes from a particle: its decay on
\* the canvas, 0.05 on the percell backend.
StatedDecay(p) == IF backend = "canvas" THEN p.decay ELSE 50

Survivors(prev) == SelectSeq(prev, LAMBDA p : p.life - StatedDecay(p) > 0)

C27_ResetAfterLatestEnd ==
    [][(backend = "canvas" /\ lastEvent' = "timer"
            /\ touchX # OffCanvas /\ touchX' = OffCanvas)
          => sinceEnd >= StandardDelay]_vars

\* C29: in the percell backend, for any pattern, cellSize and container
\* size, one grid build creates at most maxCells = 500 cell views, and the
\* step of both the row and the column loop is skipFactor =
\* ceil(cols * rows / 500), which is 1 when cols * rows <= 500: the cells
\* are those whose row and column are multiples of it.
C29_GridBuildBounded ==
    gridBuilt =>
        LET cols == PercellCount(pattern, cellSize, containerWidth, "x")
            rows == PercellCount(pattern, cellSize, containerHeight, "y")
        IN  /\ Cardinality(gridCells) <= maxCells
            /\ skipFactor = IF cols * rows <= maxCells
                            THEN 1
                            ELSE CeilDiv(cols * rows, maxCells)
            /\ gridCells = {rc \in (0..(rows - 1)) \X (0..(cols - 1)) :
                               rc[1] % skipFactor = 0 /\ rc[2] % skipFactor = 0}

\* A grid of more than 500 positions was built with a step above 1 and
\* still has more than 200 cells.
C29_Witness ==
    /\ gridBuilt
    /\ PercellCount(pattern, cellSize, containerWidth, "x")
           * PercellCount(pattern, cellSize, containerHeight, "y") > maxCells
    /\ skipFactor > 1
    /\ Cardinality(gridCells) > 200

\* C30: in the configuration store, after any sequence of setTheme,
\* addCustomTheme, setActiveCustomTheme, removeCustomTheme, resetToDefaults,
\* saveConfiguration and loadConfiguration, an activeCustomTheme that is not
\* null is a key of customThemes, and theme is then "custom".
C30_ActiveThemeIsListed ==
    (activeCustomTheme # {})
        => /\ activeCustomTheme \subseteq DOMAIN customThemes
           /\ theme = "custom"

====
